---- MODULE Spec2Model ----
(***************************************************************************)
(* Model of the Supervisor of the limit-order bot (package bot): the       *)
(* periodic tick RunOnce, startup (Start), the three persisted files, and  *)
(* the two collaborators the tick talks to, the CLOB exchange and the      *)
(* chain, reduced to the state the Supervisor can observe through them.    *)
(*                                                                         *)
(* Units: time in seconds; prices in cents (1e-2 USD); sizes and token     *)
(* balances in thousandths of a share (1e-3); USD amounts in 1e-5 USD      *)
(* (price x size).  A Go pointer field (to float64, string or time.Time)   *)
(* is a sequence of length <= 1: <<>> is nil, <<v>> points at v.           *)
(***************************************************************************)
EXTENDS Integers, Sequences, FiniteSets, TLC

VARIABLES
  bot,       \* the Bot struct: the in-memory maps of the Supervisor
  disk,      \* contents of bot_orders.json, order_history.json, markets_state.json
  book,      \* the exchange: order id -> the order the exchange holds
  burned,    \* the chain: condition id -> units of YES/NO pairs merged on chain
  pc,        \* position of the process: "boot", "idle" or a phase of RunOnce
  now,       \* wall clock (seconds)
  ticks,     \* number of ticks run so far
  restarts,  \* number of process restarts so far
  orderMode, \* cfg.OrderMode
  faults,    \* number of phases in which the outside world misbehaved so far
  fills,     \* number of matches the exchange made so far
  obs        \* observations of what the current process did (history variables)

vars == <<bot, disk, book, burned, pc, now, ticks, restarts, orderMode,
          faults, fills, obs>>

---------------------------------------------------------------------------
(* Bounds of the model *)

NumMarkets == 2
MaxTicks == 3
MaxRestarts == 2
MaxFaults == 1
MaxFills == 2
TickStep == 900

(* Program constants *)

MarketSeconds == 900
QuarterHours == 48
UpcomingPastEnd == 300
UpcomingHorizon == 86400
PlacementMinMinutes == 10
PlacementMaxMinutes == 20
ExitTimeoutSeconds == 450
SellBeforeEnd == 60
CancelAfterEnd == 300
PendingPastEnd == 300
MergeInterval == 30
CleanupAge == 86400
TestPrice == 49
TestSize == 10000
DustUnits == 10
MergeMinUnits == 1

StrategyName == "quick_exit_7_5min"

LongStep == CleanupAge + 3 * MarketSeconds

Steps == {TickStep, LongStep}

Markets == 1 .. NumMarkets

Min(a, b) == IF a <= b THEN a ELSE b
Max(a, b) == IF a >= b THEN a ELSE b

---------------------------------------------------------------------------
(* Markets.  The market source enumerates one slug per quarter hour; the    *)
(* universe of the model holds NumMarkets consecutive quarter hours.        *)

StartTS(c) == 2 * MarketSeconds + (c - 1) * MarketSeconds
EndTS(c) == StartTS(c) + MarketSeconds

Slug(c) == [prefix |-> "btc-updown-15m-", ts |-> StartTS(c)]
RecoveredSlug(c) == [prefix |-> "recovered-", ts |-> c]

\* token ids: 0 is the empty string
UpToken(c) == 10 * c + 1
DownToken(c) == 10 * c + 2
NoToken == 0

\* Market.Outcomes as the discovery returns them: Up then Down
Outcomes(c) == << [token_id |-> UpToken(c), outcome |-> "Up"],
                  [token_id |-> DownToken(c), outcome |-> "Down"] >>

---------------------------------------------------------------------------
(* Order ids *)

OrdId(n) == [kind |-> "ORD", n |-> n, t |-> 0]
SaltId(n) == [kind |-> "SALT", n |-> n, t |-> 0]
FailedId == [kind |-> "FAILED", n |-> 0, t |-> 0]
MergeId(c, t) == [kind |-> "MERGE", n |-> c, t |-> t]

Live == {"PLACED", "PARTIALLY_FILLED"}
Terminal == {"FILLED", "CANCELLED", "FAILED"}

IsYes(name) == name \in {"YES", "UP", "Yes", "Up", "yes", "up"}
IsNo(name) == name \in {"NO", "DOWN", "No", "Down", "no", "down"}

---------------------------------------------------------------------------
(* models.OrderRecord.  The constructors below build the records exactly    *)
(* as the code's struct literals do; fields a literal leaves out are nil.   *)

Nil == <<>>
Ptr(v) == <<v>>
IsSet(p) == Len(p) > 0
Deref(p) == p[1]

OrderRecord(id, slug, c, token, outcome, side, price, size, sizeUSD, status, t, txType) ==
  [ order_id |-> id, market_slug |-> slug, condition_id |-> c, token_id |-> token,
    outcome |-> outcome, side |-> side, price |-> price, size |-> size,
    size_usd |-> sizeUSD, status |-> status, size_matched |-> Nil,
    created_at |-> t, filled_at |-> Nil, error_message |-> Nil, strategy |-> Nil,
    transaction_type |-> txType, revenue_usd |-> Nil, cost_usd |-> Nil, pnl_usd |-> Nil ]

\* models.Market as the Supervisor holds it
MarketOf(c) ==
  [ condition_id |-> c, market_slug |-> Slug(c), start_ts |-> StartTS(c),
    end_ts |-> EndTS(c), outcomes |-> Outcomes(c) ]

\* findYesNoOutcomes: the first outcome named Yes/Up and the first named No/Down
findYesNoOutcomes(outs) ==
  [ yes |-> SelectSeq(outs, LAMBDA o : IsYes(o.outcome)),
    no  |-> SelectSeq(outs, LAMBDA o : IsNo(o.outcome)) ]

---------------------------------------------------------------------------
(* Persistence (persist.go).  A JSON document is modelled by its content:   *)
(* null is <<>>, a value v is <<v>>, a timestamp is the RFC3339Nano text.   *)

FormatTime(t) == [rfc3339nano |-> t]
ParseTime(s) == s.rfc3339nano

serializeOrder(o) ==
  [ order_id |-> o.order_id, market_slug |-> o.market_slug,
    condition_id |-> o.condition_id, token_id |-> o.token_id,
    outcome |-> o.outcome, side |-> o.side, price |-> o.price, size |-> o.size,
    size_usd |-> o.size_usd, status |-> o.status,
    size_matched |-> o.size_matched,
    created_at |-> FormatTime(o.created_at),
    filled_at |-> IF IsSet(o.filled_at) THEN Ptr(FormatTime(Deref(o.filled_at))) ELSE Nil,
    error_message |-> o.error_message, strategy |-> o.strategy,
    transaction_type |-> o.transaction_type,
    revenue_usd |-> o.revenue_usd, cost_usd |-> o.cost_usd, pnl_usd |-> o.pnl_usd ]

\* a string field that is null, "" or "<nil>" parses to nil
ParseOptString(v) ==
  IF IsSet(v) /\ Deref(v) # "" /\ Deref(v) # "<nil>" THEN v ELSE Nil

parseOrderRecord(m) ==
  [ order_id |-> m.order_id, market_slug |-> m.market_slug,
    condition_id |-> m.condition_id, token_id |-> m.token_id,
    outcome |-> m.outcome, side |-> m.side, price |-> m.price, size |-> m.size,
    size_usd |-> m.size_usd, status |-> m.status,
    size_matched |-> m.size_matched,
    created_at |-> ParseTime(m.created_at),
    filled_at |-> IF IsSet(m.filled_at) THEN Ptr(ParseTime(Deref(m.filled_at))) ELSE Nil,
    error_message |-> ParseOptString(m.error_message),
    strategy |-> ParseOptString(m.strategy),
    transaction_type |-> m.transaction_type,
    revenue_usd |-> Nil, cost_usd |-> Nil, pnl_usd |-> Nil ]

\* orderHistory is a map keyed by order_id: writing a record replaces the
\* record stored under the same id
HistPut(h, o) == {x \in h : x.order_id # o.order_id} \cup {o}

RECURSIVE HistPutAll(_, _)
HistPutAll(h, orders) ==
  IF orders = <<>> THEN h
  ELSE HistPutAll(HistPut(h, Head(orders)), Tail(orders))

MapSeq(F(_), s) == [i \in 1 .. Len(s) |-> F(s[i])]

EmptyBot ==
  [ trackedMarkets |-> {}, ordersPlaced |-> {},
    activeOrders |-> [c \in Markets |-> <<>>], orderHistory |-> {},
    positionsSold |-> {}, strategyExecuted |-> {},
    mergedAmounts |-> [c \in Markets |-> 0],
    lastMergeAttempt |-> [c \in Markets |-> 0],
    creds |-> FALSE,
    state |-> [error_count |-> 0, last_error |-> Nil, pending_orders |-> {}] ]

EmptyDisk ==
  [ markets |-> {}, orders |-> [c \in Markets |-> <<>>], history |-> {} ]

saveMarkets(w) == [w EXCEPT !.disk.markets = w.bot.trackedMarkets]

loadMarkets(w) ==
  [w EXCEPT !.bot.trackedMarkets = w.bot.trackedMarkets \cup w.disk.markets]

saveOrders(w) ==
  [w EXCEPT !.disk.orders =
     [c \in Markets |-> MapSeq(serializeOrder, w.bot.activeOrders[c])]]

saveOrderHistory(w) ==
  [w EXCEPT !.disk.history = {serializeOrder(o) : o \in w.bot.orderHistory}]

loadOrderHistory(w) ==
  [w EXCEPT !.bot.orderHistory =
     LET loaded == {parseOrderRecord(m) : m \in w.disk.history}
     IN  {x \in w.bot.orderHistory :
            \A o \in loaded : o.order_id # x.order_id} \cup loaded]

HasOpen(orders) == \E i \in 1 .. Len(orders) : orders[i].status \in Live

\* ord is the order in which Go iterates the decoded JSON map
loadOrders(w, ord) ==
  LET parsed == [c \in Markets |-> MapSeq(parseOrderRecord, w.disk.orders[c])]
      cids == {c \in Markets : parsed[c] # <<>>}
      step[k \in 0 .. NumMarkets] ==
        IF k = 0 THEN w.bot.orderHistory
        ELSE HistPutAll(step[k - 1], parsed[ord[k]])
  IN  [w EXCEPT
         !.bot.orderHistory = step[NumMarkets],
         !.bot.activeOrders = [c \in Markets |->
                                 IF c \in cids THEN parsed[c] ELSE w.bot.activeOrders[c]],
         !.bot.ordersPlaced = w.bot.ordersPlaced \cup {c \in cids : HasOpen(parsed[c])}]

\* RunOnce's total_pnl
SumPNL(h) ==
  LET RECURSIVE Sum(_)
      Sum(S) == IF S = {} THEN 0
                ELSE LET x == CHOOSE y \in S : TRUE
                     IN  (IF IsSet(x.pnl_usd) THEN Deref(x.pnl_usd) ELSE 0) + Sum(S \ {x})
  IN  Sum(h)

---------------------------------------------------------------------------
(* The exchange (CLOB) and the chain, as far as the Supervisor sees them.   *)
(* book[n] is the order the exchange holds under id OrdId(n).  The exchange *)
(* is honest: an order's matched size only grows, never beyond its original *)
(* size; a matched or cancelled order never re-opens; the open-order        *)
(* listing holds exactly the LIVE orders.                                   *)

\* clob order builder: the size is rounded down to 2 decimals (10 units)
roundDown2(size) == (size \div 10) * 10

CidOfToken(token) == token \div 10

BookEntry(c, token, side, price, size) ==
  [ market |-> c, asset_id |-> token, side |-> side, price |-> price,
    original_size |-> roundDown2(size), size_matched |-> 0, status |-> "LIVE" ]

NextOrderId(w) == OrdId(Len(w.book) + 1)

OnBook(w, id) == id.kind = "ORD" /\ id.n \in 1 .. Len(w.book)

\* ERC1155 balance of an outcome token: bought minus sold minus merged pairs
RECURSIVE SumMatched(_, _, _)
SumMatched(bk, token, side) ==
  IF bk = <<>> THEN 0
  ELSE (IF Head(bk).asset_id = token /\ Head(bk).side = side
        THEN Head(bk).size_matched ELSE 0) + SumMatched(Tail(bk), token, side)

ERC1155BalanceOf(w, token) ==
  SumMatched(w.book, token, "BUY") - SumMatched(w.book, token, "SELL")
    - w.burned[CidOfToken(token)]

\* the exchange refuses a SELL the wallet cannot cover
Accepts(w, token, side, size) ==
  side = "BUY" \/ ERC1155BalanceOf(w, token) >= size

\* POST /order that reached the exchange
PostOrder(w, c, token, side, price, size) ==
  [w EXCEPT !.book = Append(w.book, BookEntry(c, token, side, price, size))]

\* GET /data/order/<id>
GetOrder(w, id) ==
  [ status |-> w.book[id.n].status, size_matched |-> w.book[id.n].size_matched,
    original_size |-> w.book[id.n].original_size ]

\* DELETE /order: a LIVE order becomes CANCELLED, anything else is left alone
Cancel(w, id) ==
  IF OnBook(w, id) /\ w.book[id.n].status = "LIVE"
  THEN [w EXCEPT !.book[id.n].status = "CANCELLED"]
  ELSE w

\* GET /data/orders: the ids of the LIVE orders, optionally of one market
OpenOrderIds(w, markets) ==
  {n \in 1 .. Len(w.book) :
     w.book[n].status = "LIVE" /\ w.book[n].market \in markets}

\* chain.MergePositions: burns amt of both outcome tokens of c
MergePositions(w, c, amt) == [w EXCEPT !.burned[c] = @ + amt]

---------------------------------------------------------------------------
(* Order records built by the placement code *)

SpreadOffset == 1
OrderSizeUSD == 10
MinSellPrice == 10
MarketSellDiscount == 2
TickCents == 1

\* adjustPriceToTick with tick 0.01: clamp to [tick, 1 - tick]; prices are
\* whole cents here, so rounding to the nearest tick changes nothing
adjustPriceToTick(price) == Max(TickCents, Min(100 - TickCents, price))

\* calculateShares: round(usd / price, 2 decimals), in units of 1e-3 share
calculateShares(price, usd) ==
  IF price <= 0 THEN 0
  ELSE ((2 * usd * 10000 + price) \div (2 * price)) * 10

\* orderRecordForSide
orderRecordForSide(m, outcome, side, id, price, size, sizeUSD, strategy, t) ==
  [ OrderRecord(id, m.market_slug, m.condition_id, outcome.token_id,
                outcome.outcome, side, price, size, sizeUSD, "PLACED", t, side)
    EXCEPT !.strategy = strategy,
           !.cost_usd = IF side = "BUY" THEN Ptr(sizeUSD) ELSE Ptr(0),
           !.revenue_usd = IF side = "BUY" THEN Ptr(0) ELSE Ptr(sizeUSD),
           !.pnl_usd = IF side = "BUY" THEN Ptr(0 - sizeUSD) ELSE Ptr(sizeUSD) ]

\* failedOrderRecord
failedOrderRecord(m, outcome, side, price, size, sizeUSD, strategy, t, msg) ==
  [ orderRecordForSide(m, outcome, side, FailedId, price, 0, sizeUSD, strategy, t)
    EXCEPT !.status = "FAILED", !.error_message = Ptr(msg) ]

\* the record placeSimpleTestOrders appends when placeSingleFixed fails
testFailedRecord(m, outcome, price, size, t, msg) ==
  [ OrderRecord(FailedId, m.market_slug, m.condition_id, outcome.token_id,
                outcome.outcome, "BUY", price, 0, price * size, "FAILED", t, "BUY")
    EXCEPT !.error_message = Ptr(msg),
           !.cost_usd = Ptr(price * size),
           !.revenue_usd = Ptr(0),
           !.pnl_usd = Ptr(0 - price * size) ]

\* the record placeSingleFixed returns
testPlacedRecord(m, outcome, id, price, size, t) ==
  [ OrderRecord(id, m.market_slug, m.condition_id, outcome.token_id,
                outcome.outcome, "BUY", price, size, price * size, "PLACED", t, "BUY")
    EXCEPT !.strategy = Ptr(StrategyName),
           !.cost_usd = Ptr(price * size),
           !.revenue_usd = Ptr(0),
           !.pnl_usd = Ptr(0 - price * size) ]

---------------------------------------------------------------------------
(* What the outside world answers during one phase of a tick.               *)
(*   ord      order in which Go iterates the maps of the Bot                *)
(*   balOk    the ERC1155 balance reads succeed                             *)
(*   usdc     the USDC balance the precheck reads: "enough", "short" (above *)
(*            zero, below the requirement), "zero", or "unreadable" (the    *)
(*            read fails and the wallet does hold enough)                   *)
(*   post     per outcome, what happens to the BUY order sent for it        *)
(*   listOk   the open-order listing succeeds                               *)
(*   getFail  order ids whose GET /order fails                              *)
(*   cancelOk DELETE /order reaches the exchange                            *)
(*   mergeOk  the merge transaction is accepted                             *)
(*   bid      best bid of the order book in cents, 0 when there is none     *)
(*   sized    a listed open order carries the key "size"                    *)
(*   creds    the API credentials can be created or derived at startup      *)

PostOutcomes == {"ok", "create_failed", "rejected", "lost"}

UsdcReadings == {"enough", "short", "zero", "unreadable"}

BookBid == 50
BookSpread == 2

DefaultIn ==
  [ ord |-> [k \in Markets |-> k], balOk |-> TRUE, usdc |-> "enough",
    post |-> <<"ok", "ok">>, listOk |-> TRUE, getFail |-> {},
    cancelOk |-> TRUE, mergeOk |-> TRUE, bid |-> BookBid, sized |-> TRUE,
    creds |-> TRUE ]

\* the clob client without credentials: every call that needs the L2 headers
\* (POST /order, GET /data/order, GET /data/orders, DELETE /order) returns
\* ErrAuthUnavailableL2 before anything is sent
Auth(w, in) ==
  IF w.bot.creds THEN in
  ELSE [in EXCEPT
          !.post = [k \in 1 .. 2 |-> IF in.post[k] = "create_failed"
                                     THEN "create_failed" ELSE "rejected"],
          !.listOk = FALSE,
          !.cancelOk = FALSE,
          !.getFail = {OrdId(n) : n \in 1 .. Len(w.book)}]

Perms == {f \in [Markets -> Markets] : \A a, b \in Markets : a # b => f[a] # f[b]}

---------------------------------------------------------------------------
(* work.go *)

\* inferYesNoTokenIDs: from the orders first, then from the market outcomes
FirstToken(named, IsName(_)) ==
  LET hit == SelectSeq(named, LAMBDA x : IsName(x.outcome) /\ x.token_id # NoToken)
  IN  IF hit = <<>> THEN NoToken ELSE hit[1].token_id

inferYesNoTokenIDs(outcomes, orders) ==
  LET yo == FirstToken(orders, IsYes)
      no == FirstToken(orders, IsNo)
  IN  [ yes |-> IF yo # NoToken THEN yo ELSE FirstToken(outcomes, IsYes),
        no  |-> IF no # NoToken THEN no ELSE FirstToken(outcomes, IsNo) ]

\* walletPositionsCleared: (cleared, known)
walletPositionsCleared(w, c, orders, in) ==
  LET tok == inferYesNoTokenIDs(<<>>, orders)
  IN  IF tok.yes = NoToken \/ tok.no = NoToken THEN [cleared |-> TRUE, known |-> FALSE]
      ELSE IF ~in.balOk THEN [cleared |-> TRUE, known |-> FALSE]
      ELSE [ cleared |-> ERC1155BalanceOf(w, tok.yes) <= DustUnits
                         /\ ERC1155BalanceOf(w, tok.no) <= DustUnits,
             known |-> TRUE ]

HasFilled(orders) ==
  \E i \in 1 .. Len(orders) : orders[i].status \in {"FILLED", "PARTIALLY_FILLED"}

\* known && !cleared
HoldsPosition(wc) == wc.known /\ ~wc.cleared

\* a busy check that never finds work
neverBusy(w, t, in) == [busy |-> FALSE, w |-> w]

\* hasActiveMarketWork: [busy, w]; check 2 marks expired groups as sold on its way
hasActiveMarketWork(w, t, in) ==
  IF \E c \in Markets : HasOpen(w.bot.activeOrders[c])
  THEN [busy |-> TRUE, w |-> w]
  ELSE
    LET step[k \in 0 .. NumMarkets] ==
          IF k = 0 THEN [busy |-> FALSE, w |-> w]
          ELSE
            LET acc == step[k - 1]
                c == in.ord[k]
                orders == acc.w.bot.activeOrders[c]
            IN  IF acc.busy \/ orders = <<>> \/ c \in acc.w.bot.positionsSold
                   \/ ~HasFilled(orders)
                THEN acc
                ELSE IF c \in acc.w.bot.trackedMarkets /\ t > EndTS(c) + CancelAfterEnd
                THEN [acc EXCEPT !.w.bot.positionsSold = @ \cup {c}]
                ELSE [acc EXCEPT !.busy =
                        HoldsPosition(walletPositionsCleared(acc.w, c, orders, in))]
    IN  step[NumMarkets]

\* a window test with both bounds exclusive
strictWindow(c, t) ==
  LET sec == StartTS(c) - t
  IN  sec > PlacementMinMinutes * 60 /\ sec < PlacementMaxMinutes * 60

\* shouldPlaceOrders
shouldPlaceOrders(c, t) ==
  LET sec == StartTS(c) - t
  IN  sec >= PlacementMinMinutes * 60 /\ sec <= PlacementMaxMinutes * 60

---------------------------------------------------------------------------
(* Placement *)

\* the collateral precheck of both placement functions: bal > 0 && bal < required,
\* where a failed read leaves bal = 0
InsufficientBalance(in) == in.usdc = "short"

\* what happens to the BUY order sent for the k-th outcome: the exchange
\* rejects a BUY of a wallet that holds no collateral
PostResult(in, k) == IF in.usdc = "zero" THEN "rejected" ELSE in.post[k]

\* placeSimpleTestOrders with placeSingleFixed inlined: [w, orders, err]
placeSimpleTestOrders(w, m, price, size, t, in) ==
  LET yn == findYesNoOutcomes(m.outcomes)
  IN  IF InsufficientBalance(in) THEN [w |-> w, orders |-> <<>>, err |-> TRUE]
      ELSE IF yn.yes = <<>> \/ yn.no = <<>> THEN [w |-> w, orders |-> <<>>, err |-> TRUE]
      ELSE
        LET outs == <<yn.yes[1], yn.no[1]>>
            step[k \in 0 .. 2] ==
              IF k = 0 THEN [w |-> w, orders |-> <<>>, err |-> FALSE]
              ELSE
                LET acc == step[k - 1]
                    sent == PostResult(in, k) \in {"ok", "lost"}
                    w2 == IF sent
                          THEN PostOrder(acc.w, m.condition_id, outs[k].token_id,
                                         "BUY", price, size)
                          ELSE acc.w
                    rec == IF PostResult(in, k) = "ok"
                           THEN testPlacedRecord(m, outs[k], NextOrderId(acc.w),
                                                 price, size, t)
                           ELSE testFailedRecord(m, outs[k], price, size, t,
                                                 "order submission failed")
                IN  [w |-> w2, orders |-> Append(acc.orders, rec), err |-> FALSE]
        IN  step[2]

\* placeSingleOrderBestEffort: [w, rec]
placeSingleOrderBestEffort(w, m, outcome, side, price, size, t, po) ==
  LET sizeUSD == price * size
      salt == SaltId(2 * outcome.token_id + (IF side = "SELL" THEN 1 ELSE 0))
      onBook == PostOrder(w, m.condition_id, outcome.token_id, side, price, size)
  IN  CASE po = "create_failed" ->
             [ w |-> w,
               rec |-> failedOrderRecord(m, outcome, side, price, size, sizeUSD,
                                         Ptr(StrategyName), t, "create order failed") ]
        [] po \in {"rejected", "lost"} ->
             [ w |-> IF po = "lost" THEN onBook ELSE w,
               rec |-> [ orderRecordForSide(m, outcome, side, [salt EXCEPT !.t = t],
                                            price, size, sizeUSD, Ptr(StrategyName), t)
                         EXCEPT !.error_message = Ptr("API error (will verify)") ] ]
        [] OTHER ->
             [ w |-> onBook,
               rec |-> orderRecordForSide(m, outcome, side, NextOrderId(w), price, size,
                                          sizeUSD, Ptr(StrategyName), t) ]

\* a verification that leaves the amounts of a missing order as they were
verifyKeepingAmounts(w, m, orders, in) ==
  IF ~in.listOk THEN orders
  ELSE
    LET active == OpenOrderIds(w, {m.condition_id})
        Verify(o) ==
          IF o.order_id.kind = "ORD" /\ o.order_id.n \in active
          THEN [o EXCEPT !.status = "PLACED", !.error_message = Nil]
          ELSE [o EXCEPT !.status = "FAILED", !.size = 0, !.size_usd = 0,
                         !.error_message =
                            IF o.error_message = Nil
                            THEN Ptr("Order not found in orderbook after placement")
                            ELSE o.error_message]
    IN  MapSeq(Verify, orders)

\* verifyOrdersInOrderbook
verifyOrdersInOrderbook(w, m, orders, in) ==
  IF ~in.listOk THEN orders
  ELSE
    LET active == OpenOrderIds(w, {m.condition_id})
        Verify(o) ==
          IF o.order_id.kind = "ORD" /\ o.order_id.n \in active
          THEN [o EXCEPT !.status = "PLACED", !.error_message = Nil]
          ELSE [o EXCEPT !.status = "FAILED", !.size = 0, !.size_usd = 0,
                         !.cost_usd = Ptr(0), !.revenue_usd = Ptr(0), !.pnl_usd = Ptr(0),
                         !.error_message =
                            IF o.error_message = Nil
                            THEN Ptr("Order not found in orderbook after placement")
                            ELSE o.error_message]
    IN  MapSeq(Verify, orders)

\* placeLiquidityOrders: [w, orders, err]
appendPlaced(acc, r) == [w |-> r.w, orders |-> Append(acc.orders, r.rec)]

placeBuy(acc, m, o, price, shares, t, po) ==
  IF shares > 0
  THEN appendPlaced(acc, placeSingleOrderBestEffort(acc.w, m, o, "BUY", price, shares,
                                                    t, po))
  ELSE acc

\* a SELL of tokens the wallet does not hold is refused by the exchange
placeSell(acc, m, o, price, shares, t) ==
  IF shares > 0
  THEN appendPlaced(acc,
         placeSingleOrderBestEffort(acc.w, m, o, "SELL", price, shares, t,
           IF Accepts(acc.w, o.token_id, "SELL", shares) THEN "ok" ELSE "rejected"))
  ELSE acc

\* sent holds the orders as they were before the verification
verified(res, m, in) ==
  [ w |-> res.w,
    orders |-> IF res.orders = <<>> THEN <<>>
               ELSE verifyOrdersInOrderbook(res.w, m, res.orders, in),
    err |-> FALSE,
    sent |-> res.orders ]

\* a placement that returns its orders as it submitted them
unverified(res) ==
  [w |-> res.w, orders |-> res.orders, err |-> res.err, sent |-> res.orders]

\* placeLiquidityOrders: [w, orders, err]
placeLiquidityOrders(w, m, t, in) ==
  IF InsufficientBalance(in)
  THEN [w |-> w, orders |-> <<>>, err |-> TRUE, sent |-> <<>>]
  ELSE
    LET bestBid == in.bid
        bestAsk == IF in.bid > 0 THEN in.bid + BookSpread ELSE 0
        buyPrice == adjustPriceToTick(bestBid - SpreadOffset)
        sellPrice == adjustPriceToTick(bestAsk + SpreadOffset)
        step[k \in 0 .. Len(m.outcomes)] ==
          IF k = 0 THEN [w |-> w, orders |-> <<>>]
          ELSE IF m.outcomes[k].token_id = NoToken \/ bestBid <= 0 \/ bestAsk <= 0
          THEN step[k - 1]
          ELSE placeSell(placeBuy(step[k - 1], m, m.outcomes[k], buyPrice,
                                  calculateShares(buyPrice, OrderSizeUSD), t,
                                  PostResult(in, k)),
                         m, m.outcomes[k], sellPrice,
                         calculateShares(sellPrice, OrderSizeUSD), t)
    IN  verified(step[Len(m.outcomes)], m, in)

---------------------------------------------------------------------------
(* Merge and liquidation (mergePositionsIfPossible, sell*, trackMerge).     *)
(* A failed balance read hands a nil *big.Int to toFloat6 in the two sell   *)
(* paths, which dereference it: the process panics (w.panic).               *)

\* an external call of the current tick returned an error
NoteFailed(w, call) == [w EXCEPT !.obs.failed = @ \cup {call}]

\* mergePositionsIfPossible: [w, merged]
mergePositionsIfPossible(w, m, orders, in) ==
  LET c == m.condition_id
      tok == inferYesNoTokenIDs(m.outcomes, orders)
      yes == ERC1155BalanceOf(w, tok.yes)
      no == ERC1155BalanceOf(w, tok.no)
      already == w.bot.mergedAmounts[c]
      mergeAmt == Min(yes, no) - already
  IN  IF tok.yes = NoToken \/ tok.no = NoToken THEN [w |-> w, merged |-> 0]
      ELSE IF ~in.balOk
      THEN [w |-> NoteFailed(w, "ERC1155BalanceOf"), merged |-> 0]
      ELSE IF yes <= 0 \/ no <= 0 \/ mergeAmt <= MergeMinUnits \/ ~in.mergeOk
      THEN [w |-> w, merged |-> 0]
      ELSE [ w |-> [MergePositions(w, c, mergeAmt)
                      EXCEPT !.bot.mergedAmounts[c] = already + mergeAmt],
             merged |-> mergeAmt ]

\* trackMerge: a synthetic FILLED record, written to the history only
trackMerge(w, m, merged, t) ==
  LET usd == 100 * merged
      rec == [ OrderRecord(MergeId(m.condition_id, t), m.market_slug, m.condition_id,
                           NoToken, "MERGE", "SELL", 100, merged, usd, "FILLED", t, "MERGE")
               EXCEPT !.filled_at = Ptr(t), !.revenue_usd = Ptr(usd),
                      !.cost_usd = Ptr(0), !.pnl_usd = Ptr(usd) ]
  IN  [w EXCEPT !.bot.orderHistory = HistPut(@, rec)]

\* sellPositionMarket: po is what happens to the SELL order sent
sellPositionMarket(w, m, outcome, size, t, in, po) ==
  LET bestBid == in.bid
      price == adjustPriceToTick(Max(bestBid - MarketSellDiscount, MinSellPrice))
      sizeUSD == price * size
      sent == po \in {"ok", "lost"} /\ Accepts(w, outcome.token_id, "SELL", size)
      onBook == PostOrder(w, m.condition_id, outcome.token_id, "SELL", price, size)
      rec == [ OrderRecord(NextOrderId(w), m.market_slug, m.condition_id,
                           outcome.token_id, outcome.outcome, "SELL", price, size,
                           sizeUSD, "PLACED", t, "SELL")
               EXCEPT !.strategy = Ptr(StrategyName), !.revenue_usd = Ptr(sizeUSD),
                      !.cost_usd = Ptr(0), !.pnl_usd = Ptr(sizeUSD) ]
  IN  IF bestBid <= 0 \/ bestBid < MinSellPrice THEN w
      ELSE IF ~sent THEN w
      ELSE IF po = "lost" THEN onBook
      ELSE [onBook EXCEPT !.bot.orderHistory = HistPut(@, rec)]

\* the two sells of sellRemainingPositionsIfNeeded and of sellLeftoversNow
sellSide(w, m, out, remaining, t, in, po) ==
  IF remaining > DustUnits /\ out # <<>>
  THEN sellPositionMarket(w, m, out[1], remaining, t, in, po)
  ELSE w

SellBoth(w, m, remainingYes, remainingNo, t, in) ==
  LET yn == findYesNoOutcomes(m.outcomes)
  IN  sellSide(sellSide(w, m, yn.yes, remainingYes, t, in, in.post[1]),
               m, yn.no, remainingNo, t, in, in.post[2])

MarkSold(w, c) == [w EXCEPT !.bot.positionsSold = @ \cup {c}]

\* what an observer sees of a near-expiry liquidation: the wallet's balances when
\* it starts, the sizes handed to sellPositionMarket, and the state it leaves
NoteSell(w, res, c, tok, t, in, sizeYes, sizeNo) ==
  [res EXCEPT !.obs.sells = @ \cup
     {[ cid |-> c, t |-> t, bid |-> in.bid, read |-> in.balOk,
        yes |-> ERC1155BalanceOf(w, tok.yes), no |-> ERC1155BalanceOf(w, tok.no),
        merged |-> w.bot.mergedAmounts[c],
        sizeYes |-> IF sizeYes > DustUnits THEN sizeYes ELSE 0,
        sizeNo |-> IF sizeNo > DustUnits THEN sizeNo ELSE 0,
        sold |-> c \in res.bot.positionsSold, crashed |-> res.panic ]}]

\* sellRemainingPositionsIfNeeded
sellRemainingPositionsIfNeeded(w, m, orders, t, in) ==
  LET c == m.condition_id
      tok == inferYesNoTokenIDs(m.outcomes, orders)
      merged == w.bot.mergedAmounts[c]
      remainingYes == Max(0, ERC1155BalanceOf(w, tok.yes) - merged)
      remainingNo == Max(0, ERC1155BalanceOf(w, tok.no) - merged)
  IN  IF c \in w.bot.positionsSold \/ t < m.end_ts - SellBeforeEnd THEN w
      ELSE IF tok.yes = NoToken \/ tok.no = NoToken THEN MarkSold(w, c)
      ELSE IF ~in.balOk THEN NoteSell(w, [w EXCEPT !.panic = TRUE], c, tok, t, in, 0, 0)
      ELSE IF remainingYes <= DustUnits /\ remainingNo <= DustUnits
      THEN NoteSell(w, MarkSold(w, c), c, tok, t, in, remainingYes, remainingNo)
      ELSE NoteSell(w, saveOrderHistory(saveOrders(
                         MarkSold(SellBoth(w, m, remainingYes, remainingNo, t, in), c))),
                    c, tok, t, in, remainingYes, remainingNo)

\* sellLeftoversNow
sellLeftoversNow(w, m, orders, t, in) ==
  LET c == m.condition_id
      tok == inferYesNoTokenIDs(m.outcomes, orders)
      merged == w.bot.mergedAmounts[c]
      remainingYes == ERC1155BalanceOf(w, tok.yes) - merged
      remainingNo == ERC1155BalanceOf(w, tok.no) - merged
  IN  IF tok.yes = NoToken \/ tok.no = NoToken THEN w
      ELSE IF ~in.balOk THEN [w EXCEPT !.panic = TRUE]
      ELSE MarkSold(SellBoth(w, m, remainingYes, remainingNo, t, in), c)

---------------------------------------------------------------------------
(* Reconciliation of one order against the exchange's reply *)

\* a switch that looks at the remote CANCELLED before the matched size
cancelledFirst(cur, status, sizeMatched, origSize) ==
  IF status = "MATCHED" \/ (origSize > 0 /\ sizeMatched >= origSize) THEN "FILLED"
  ELSE IF status = "CANCELLED" THEN "CANCELLED"
  ELSE IF sizeMatched > 0 THEN "PARTIALLY_FILLED"
  ELSE IF status \in {"OPEN", "PLACED", "LIVE", "ACTIVE"} THEN "PLACED"
  ELSE cur

\* the switch of checkActiveOrders (tracked market)
ReconcileStatus(cur, status, sizeMatched, origSize) ==
  IF status = "MATCHED" \/ (origSize > 0 /\ sizeMatched >= origSize) THEN "FILLED"
  ELSE IF sizeMatched > 0 THEN "PARTIALLY_FILLED"
  ELSE IF status = "CANCELLED" THEN "CANCELLED"
  ELSE IF status \in {"OPEN", "PLACED", "LIVE", "ACTIVE"} THEN "PLACED"
  ELSE cur

\* the switch of refreshOrphanedOrders: no case for an open order
ReconcileOrphanStatus(cur, status, sizeMatched, origSize) ==
  IF status = "MATCHED" \/ (origSize > 0 /\ sizeMatched >= origSize) THEN "FILLED"
  ELSE IF sizeMatched > 0 THEN "PARTIALLY_FILLED"
  ELSE IF status = "CANCELLED" THEN "CANCELLED"
  ELSE cur

ApplyDetails(o, details, newStatus, t) ==
  [o EXCEPT !.size_matched = Ptr(details.size_matched),
            !.status = newStatus,
            !.filled_at = IF newStatus = "FILLED" THEN Ptr(t) ELSE @]

OrigSize(o, details) ==
  IF details.original_size = 0 THEN o.size ELSE details.original_size

GetOrderOk(w, id, in) == OnBook(w, id) /\ id \notin in.getFail

\* lines 455-490 of checkActiveOrders for one order
reconcileTracked(w, o, t, in) ==
  IF o.status \notin Live \/ ~GetOrderOk(w, o.order_id, in) THEN o
  ELSE LET d == GetOrder(w, o.order_id)
       IN  ApplyDetails(o, d,
             ReconcileStatus(o.status, d.status, d.size_matched, OrigSize(o, d)), t)

---------------------------------------------------------------------------
(* Startup recovery (recoverExistingOrders) *)

alreadyTracked(w, id) ==
  \E c \in Markets : \E i \in 1 .. Len(w.bot.activeOrders[c]) :
     w.bot.activeOrders[c][i].order_id = id

\* slug and outcome name of a recovered order: from the tracked market, or
\* from a persisted order of the same market and token
Hydrate(w, c, token) ==
  IF c \in w.bot.trackedMarkets
  THEN LET hit == SelectSeq(Outcomes(c), LAMBDA o : o.token_id = token)
       IN  [ slug |-> Slug(c),
             outcome |-> IF hit = <<>> THEN "Unknown" ELSE hit[1].outcome ]
  ELSE LET hit == SelectSeq(w.bot.activeOrders[c],
                            LAMBDA o : o.condition_id = c /\ o.token_id = token)
       IN  IF hit = <<>> THEN [slug |-> RecoveredSlug(c), outcome |-> "Unknown"]
           ELSE [slug |-> hit[1].market_slug, outcome |-> hit[1].outcome]

\* od["size"] of an open order of the listing: the exchange documents
\* original_size and size_matched for an order; where a listed order carries no
\* size key, asFloat(nil) is 0
ListedSize(od, in) == IF in.sized THEN od.original_size ELSE 0

recoveredRecord(w, n, t, in) ==
  LET od == w.book[n]
      h == Hydrate(w, od.market, od.asset_id)
      rec == OrderRecord(OrdId(n), h.slug, od.market, od.asset_id, h.outcome, od.side,
                         od.price, ListedSize(od, in), od.price * ListedSize(od, in),
                         "PLACED", t, od.side)
  IN  IF GetOrderOk(w, OrdId(n), in)
      THEN LET det == GetOrder(w, OrdId(n))
           IN  [rec EXCEPT !.size_matched = Ptr(det.size_matched),
                           !.status = IF det.status = "CANCELLED" THEN "CANCELLED" ELSE @]
      ELSE rec

\* a recovery that files the order under another market
adoptMisfiled(acc, rec) ==
  [ w |-> [acc.w EXCEPT
             !.bot.activeOrders[NumMarkets + 1 - rec.condition_id] = Append(@, rec),
             !.bot.ordersPlaced = @ \cup {rec.condition_id},
             !.bot.orderHistory = HistPut(@, rec)],
    recovered |-> acc.recovered + 1 ]

\* a recovery that leaves the history alone
adoptUnrecorded(acc, rec) ==
  [ w |-> [acc.w EXCEPT !.bot.activeOrders[rec.condition_id] = Append(@, rec),
                        !.bot.ordersPlaced = @ \cup {rec.condition_id}],
    recovered |-> acc.recovered + 1 ]

\* the tail of the loop body of recoverExistingOrders
adopt(acc, rec) ==
  [ w |-> [acc.w EXCEPT !.bot.activeOrders[rec.condition_id] = Append(@, rec),
                        !.bot.ordersPlaced = @ \cup {rec.condition_id},
                        !.bot.orderHistory = HistPut(@, rec)],
    recovered |-> acc.recovered + 1 ]

saveIfRecovered(res) ==
  IF res.recovered > 0 THEN saveOrderHistory(saveOrders(res.w)) ELSE res.w

recoverExistingOrders(w, t, in) ==
  IF ~in.listOk THEN w
  ELSE
    LET step[k \in 0 .. Len(w.book)] ==
          IF k = 0 THEN [w |-> w, recovered |-> 0]
          ELSE
            LET acc == step[k - 1]
            IN  IF w.book[k].status # "LIVE" \/ alreadyTracked(acc.w, OrdId(k)) THEN acc
                ELSE adopt(acc, recoveredRecord(acc.w, k, t, in))
    IN  saveIfRecovered(step[Len(w.book)])

---------------------------------------------------------------------------
(* housekeeping.go *)

isOrphanMarketExpired(slug, t) ==
  slug.prefix = "btc-updown-15m-" /\ t > slug.ts + MarketSeconds + CancelAfterEnd

clearOrphanGroup(w, c) ==
  [w EXCEPT !.bot.activeOrders[c] = <<>>,
            !.bot.ordersPlaced = @ \ {c},
            !.bot.positionsSold = @ \ {c},
            !.bot.lastMergeAttempt[c] = 0,
            !.bot.mergedAmounts[c] = 0,
            !.bot.strategyExecuted = @ \ {c}]

RECURSIVE OldestCreatedAt(_)
OldestCreatedAt(orders) ==
  IF Len(orders) = 1 THEN orders[1].created_at
  ELSE Min(orders[1].created_at, OldestCreatedAt(Tail(orders)))

IsCleared(wc) == wc.known /\ wc.cleared

shouldAutoFinalizeOrphan(w, c, orders, t, in) ==
  LET missing == \E i \in 1 .. Len(orders) :
                    orders[i].token_id = NoToken \/ orders[i].outcome = "Unknown"
  IN  IF c \in w.bot.trackedMarkets \/ HasOpen(orders) \/ ~missing THEN FALSE
      ELSE IF IsCleared(walletPositionsCleared(w, c, orders, in)) THEN TRUE
      ELSE t - OldestCreatedAt(orders) > CleanupAge

\* one order of refreshOrphanedOrders
refreshOrphan(w, o, t, in) ==
  IF o.status \notin Live THEN o
  ELSE IF GetOrderOk(w, o.order_id, in)
  THEN LET d == GetOrder(w, o.order_id)
       IN  ApplyDetails(o, d,
             ReconcileOrphanStatus(o.status, d.status, d.size_matched, OrigSize(o, d)), t)
  ELSE IF isOrphanMarketExpired(o.market_slug, t) THEN [o EXCEPT !.status = "CANCELLED"]
  ELSE o

\* the tail of the loop body of refreshOrphanedOrders: o is the refreshed order
keepOrphan(acc, o, before) ==
  [ w |-> [acc.w EXCEPT !.bot.orderHistory = HistPut(@, o)],
    changed |-> acc.changed \/ o.status # before.status
                \/ o.status \notin {"PLACED", "PARTIALLY_FILLED", "FILLED"},
    kept |-> IF o.status \in {"PLACED", "PARTIALLY_FILLED", "FILLED"}
             THEN Append(acc.kept, o) ELSE acc.kept ]

\* what refreshOrphanedOrders does with the orders it kept
orphanVerdict(res, c, t, in) ==
  IF res.kept = <<>>
  THEN [w |-> clearOrphanGroup(res.w, c), changed |-> TRUE, kept |-> <<>>]
  ELSE IF c \notin res.w.bot.positionsSold
          /\ shouldAutoFinalizeOrphan(res.w, c, res.kept, t, in)
  THEN [ w |-> [res.w EXCEPT !.bot.positionsSold = @ \cup {c},
                             !.bot.activeOrders[c] = <<>>,
                             !.bot.lastMergeAttempt[c] = 0],
         changed |-> TRUE, kept |-> <<>> ]
  ELSE res

\* refreshOrphanedOrders on g = [w, changed]: [w, changed, kept]; kept = <<>> is
\* the nil slice
refreshOrphanedOrders(g, c, orders, t, in) ==
  LET step[k \in 0 .. Len(orders)] ==
        IF k = 0 THEN [w |-> g.w, changed |-> g.changed, kept |-> <<>>]
        ELSE LET acc == step[k - 1]
             IN  keepOrphan(acc, refreshOrphan(acc.w, orders[k], t, in), orders[k])
  IN  orphanVerdict(step[Len(orders)], c, t, in)

\* buildOrphanMarket
RECURSIVE OrphanOutcomes(_, _)
OrphanOutcomes(orders, outs) ==
  IF orders = <<>> THEN outs
  ELSE LET o == Head(orders)
           seen == \E i \in 1 .. Len(outs) : outs[i].token_id = o.token_id
           name == IF o.outcome = "Unknown"
                   THEN (IF outs = <<>> THEN "Up" ELSE "Down")
                   ELSE o.outcome
       IN  IF o.token_id = NoToken \/ seen THEN OrphanOutcomes(Tail(orders), outs)
           ELSE OrphanOutcomes(Tail(orders),
                               Append(outs, [token_id |-> o.token_id, outcome |-> name]))

buildOrphanMarket(c, orders, t) ==
  [ condition_id |-> c, market_slug |-> orders[1].market_slug, start_ts |-> t - 60,
    end_ts |-> t + 3600, outcomes |-> OrphanOutcomes(orders, <<>>) ]

\* finalizeOldOrderStatuses: every order that is not terminal ends CANCELLED,
\* whatever the exchange answers; [w, changed]
finalizeOldOrderStatuses(w, c, orders) ==
  LET Fin(o) == IF o.status \in Terminal THEN o ELSE [o EXCEPT !.status = "CANCELLED"]
      touched == SelectSeq(orders, LAMBDA o : o.status \notin Terminal)
      done == MapSeq(Fin, orders)
  IN  [ w |-> [w EXCEPT !.bot.activeOrders[c] = done,
                        !.bot.orderHistory = HistPutAll(@, MapSeq(Fin, touched))],
        changed |-> touched # <<>> ]

\* the markets housekeeping dropped in the current tick
NoteDropped(w, old) == [w EXCEPT !.obs.dropped = old]

\* cleanupOldMarkets without delete(b.ordersPlaced, cid)
cleanupKeepingFlag(w, t, in) ==
  LET cutoff == t - CleanupAge
      old == {c \in w.bot.trackedMarkets : EndTS(c) < cutoff}
      step[k \in 0 .. NumMarkets] ==
        IF k = 0 THEN w
        ELSE IF in.ord[k] \notin old THEN step[k - 1]
        ELSE [step[k - 1] EXCEPT
                !.bot.trackedMarkets = @ \ {in.ord[k]},
                !.bot.activeOrders[in.ord[k]] = <<>>,
                !.bot.positionsSold = @ \ {in.ord[k]},
                !.bot.lastMergeAttempt[in.ord[k]] = 0,
                !.bot.mergedAmounts[in.ord[k]] = 0,
                !.bot.strategyExecuted = @ \ {in.ord[k]}]
  IN  IF old = {} THEN w ELSE NoteDropped(saveMarkets(step[NumMarkets]), old)

\* cleanupOldMarkets
cleanupOldMarkets(w, t, in) ==
  LET cutoff == t - CleanupAge
      old == {c \in w.bot.trackedMarkets : EndTS(c) < cutoff}
      step[k \in 0 .. NumMarkets] ==
        IF k = 0 THEN [w |-> w, changed |-> FALSE]
        ELSE
          LET acc == step[k - 1]
              c == in.ord[k]
              orders == acc.w.bot.activeOrders[c]
              fin == IF orders # <<>> THEN finalizeOldOrderStatuses(acc.w, c, orders)
                     ELSE [w |-> acc.w, changed |-> FALSE]
          IN  IF c \notin old THEN acc
              ELSE [ w |-> [fin.w EXCEPT
                              !.bot.trackedMarkets = @ \ {c},
                              !.bot.ordersPlaced = @ \ {c},
                              !.bot.activeOrders[c] = <<>>,
                              !.bot.positionsSold = @ \ {c},
                              !.bot.lastMergeAttempt[c] = 0,
                              !.bot.mergedAmounts[c] = 0,
                              !.bot.strategyExecuted = @ \ {c}],
                     changed |-> acc.changed \/ fin.changed ]
      res == step[NumMarkets]
  IN  IF old = {} THEN w
      ELSE IF res.changed
           THEN NoteDropped(saveOrderHistory(saveOrders(saveMarkets(res.w))), old)
      ELSE NoteDropped(saveMarkets(res.w), old)

---------------------------------------------------------------------------
(* checkActiveOrders *)

\* a merge that is due in every pass
alwaysDue(w, c, t) == TRUE

MergeDue(w, c, t) ==
  w.bot.lastMergeAttempt[c] = 0 \/ t - w.bot.lastMergeAttempt[c] >= MergeInterval

\* trackMerge when something was merged
trackIfMerged(mg, m, t) ==
  IF mg.merged > 0 THEN trackMerge(mg.w, m, mg.merged, t) ELSE mg.w

\* the periodic merge of both branches, on g = [w, changed, ...]
stampMerge(g, mg, m, t) ==
  [g EXCEPT !.w = [trackIfMerged(mg, m, t)
                     EXCEPT !.bot.lastMergeAttempt[m.condition_id] = t],
            !.changed = @ \/ mg.merged > 0]

\* mergePositionsIfPossible is called for the market c at time t
NoteAttempt(w, c, t) == [w EXCEPT !.obs.attempts = Append(@, [cid |-> c, t |-> t])]

periodicMerge(g, m, orders, t, in) ==
  IF m.condition_id \notin g.w.bot.positionsSold /\ MergeDue(g.w, m.condition_id, t)
  THEN stampMerge(g, mergePositionsIfPossible(NoteAttempt(g.w, m.condition_id, t),
                                              m, orders, in), m, t)
  ELSE g

orphanMerge(r, c, t, in) ==
  IF r.kept = <<>> THEN r
  ELSE periodicMerge(r, buildOrphanMarket(c, r.kept, t), r.kept, t, in)

orphanSold(r, c, unsold, in) ==
  IF r.kept # <<>> /\ unsold /\ IsCleared(walletPositionsCleared(r.w, c, r.kept, in))
  THEN [r EXCEPT !.w = MarkSold(@, c), !.changed = TRUE]
  ELSE r

orphanStore(r, c) ==
  [ w |-> IF r.kept = <<>> THEN r.w ELSE [r.w EXCEPT !.bot.activeOrders[c] = r.kept],
    changed |-> r.changed ]

orphanAfterRefresh(r, c, t, in) ==
  orphanStore(orphanSold(orphanMerge(r, c, t, in), c,
                         c \notin r.w.bot.positionsSold, in), c)

checkOrphanGroup(g, c, t, in) ==
  orphanAfterRefresh(refreshOrphanedOrders(g, c, g.w.bot.activeOrders[c], t, in),
                     c, t, in)

\* the records of the group of c
GroupRecords(b, c) == {b.activeOrders[c][i] : i \in 1 .. Len(b.activeOrders[c])}

\* a cancelLive that leaves the history as it is
cancelInGroupOnly(w, c, in) ==
  LET orders == w.bot.activeOrders[c]
      live == SelectSeq(orders, LAMBDA o : o.status \in Live)
      Cxl(o) == IF o.status \in Live THEN [o EXCEPT !.status = "CANCELLED"] ELSE o
      cancelAll[k \in 0 .. Len(live)] ==
        IF k = 0 THEN w
        ELSE IF in.cancelOk THEN Cancel(cancelAll[k - 1], live[k].order_id)
        ELSE cancelAll[k - 1]
  IN  [cancelAll[Len(live)] EXCEPT !.bot.activeOrders[c] = MapSeq(Cxl, orders)]

\* the exchange is asked to cancel every live order of the group; the local
\* records end CANCELLED whatever it answers
cancelLive(w, c, in) ==
  LET orders == w.bot.activeOrders[c]
      live == SelectSeq(orders, LAMBDA o : o.status \in Live)
      Cxl(o) == IF o.status \in Live THEN [o EXCEPT !.status = "CANCELLED"] ELSE o
      cancelAll[k \in 0 .. Len(live)] ==
        IF k = 0 THEN w
        ELSE IF in.cancelOk THEN Cancel(cancelAll[k - 1], live[k].order_id)
        ELSE cancelAll[k - 1]
  IN  [cancelAll[Len(live)] EXCEPT
         !.bot.activeOrders[c] = MapSeq(Cxl, orders),
         !.bot.orderHistory = HistPutAll(@, MapSeq(Cxl, live)),
         !.obs.failed = IF live # <<>> /\ ~in.cancelOk THEN @ \cup {"Cancel"} ELSE @]

\* what an observer sees of the group of c once lines 508-519 are over: ids
\* are the orders that were live when they began
NoteCancelled(g, c, ids, in) ==
  [g EXCEPT !.w.obs.cancelled = @ \cup
     {[ cid |-> c, ids |-> ids, asked |-> in.cancelOk,
        group |-> {o.order_id : o \in {x \in GroupRecords(g.w.bot, c) :
                                           x.status = "CANCELLED"}},
        history |-> {o.order_id : o \in {x \in g.w.bot.orderHistory :
                                             x.status = "CANCELLED"}},
        sold |-> c \in g.w.bot.positionsSold ]}]

\* lines 508-519: after the market's end + 5 min every live order is cancelled
cancelAfterEnd(g, c, t, in) ==
  IF g.w.panic \/ t <= EndTS(c) + CancelAfterEnd THEN g
  ELSE NoteCancelled([ w |-> MarkSold(cancelLive(g.w, c, in), c),
                       changed |-> g.changed \/ HasOpen(g.w.bot.activeOrders[c]) ],
                     c, {o.order_id : o \in {x \in GroupRecords(g.w.bot, c) :
                                                x.status \in Live}}, in)

\* lines 455-490: every live order of the group is reconciled
reconcileGroup(g, c, t, in) ==
  LET w == g.w
      orders == w.bot.activeOrders[c]
      Rec(o) == reconcileTracked(w, o, t, in)
      touched == SelectSeq(orders,
                   LAMBDA o : o.status \in Live /\ GetOrderOk(w, o.order_id, in))
      refused == \E i \in 1 .. Len(orders) :
                    orders[i].status \in Live /\ orders[i].order_id \in in.getFail
  IN  [ w |-> [w EXCEPT !.bot.activeOrders[c] = MapSeq(Rec, orders),
                        !.bot.orderHistory = HistPutAll(@, MapSeq(Rec, touched)),
                        !.obs.failed = IF refused THEN @ \cup {"GetOrder"} ELSE @],
        changed |-> g.changed
                    \/ \E i \in 1 .. Len(orders) : Rec(orders[i]).status # orders[i].status ]

sellGroup(g, c, t, in) ==
  IF c \in g.w.bot.positionsSold THEN g
  ELSE [g EXCEPT !.w = sellRemainingPositionsIfNeeded(@, MarketOf(c),
                                                      @.bot.activeOrders[c], t, in)]

mergeGroup(g, c, t, in) ==
  periodicMerge(g, MarketOf(c), g.w.bot.activeOrders[c], t, in)

\* lines 455-520: a group of a tracked market, on g = [w, changed]
checkTrackedGroup(g, c, t, in) ==
  cancelAfterEnd(sellGroup(mergeGroup(reconcileGroup(g, c, t, in), c, t, in),
                           c, t, in), c, t, in)

checkGroup(g, c, t, in) ==
  IF g.w.panic \/ g.w.bot.activeOrders[c] = <<>> THEN g
  ELSE IF c \in g.w.bot.trackedMarkets THEN checkTrackedGroup(g, c, t, in)
  ELSE checkOrphanGroup(g, c, t, in)

saveIfChanged(g) ==
  IF g.changed /\ ~g.w.panic THEN saveOrderHistory(saveOrders(g.w)) ELSE g.w

checkActiveOrders(w, t, in) ==
  LET step[k \in 0 .. NumMarkets] ==
        IF k = 0 THEN [w |-> w, changed |-> FALSE]
        ELSE checkGroup(step[k - 1], in.ord[k], t, in)
  IN  saveIfChanged(step[NumMarkets])

---------------------------------------------------------------------------
(* checkStrategyExecution: cancel, merge and sell when the exit timeout of  *)
(* the strategy has passed since the market's start                         *)

strategyDue(w, c, t) ==
  LET orders == w.bot.activeOrders[c]
      name == IF IsSet(orders[1].strategy) /\ Deref(orders[1].strategy) # ""
              THEN Deref(orders[1].strategy) ELSE StrategyName
  IN  /\ orders # <<>>
      /\ c \notin w.bot.strategyExecuted
      /\ c \in w.bot.trackedMarkets
      /\ name = StrategyName
      /\ t >= StartTS(c)
      /\ t - StartTS(c) >= ExitTimeoutSeconds

\* what an observer sees of the group of c once the exit is over
NoteDone(w, c) ==
  [w EXCEPT !.obs.done = @ \cup
     {[ cid |-> c, executed |-> c \in w.bot.strategyExecuted,
        sold |-> c \in w.bot.positionsSold,
        live |-> HasOpen(w.bot.activeOrders[c]) ]}]

executed(w, c) ==
  IF w.panic THEN w
  ELSE NoteDone(saveOrderHistory(saveOrders(
                  [w EXCEPT !.bot.strategyExecuted = @ \cup {c}])), c)

mergeNow(w, m, t, in) ==
  trackIfMerged(mergePositionsIfPossible(w, m, w.bot.activeOrders[m.condition_id], in),
                m, t)

sellNow(w, m, t, in) ==
  sellLeftoversNow(w, m, w.bot.activeOrders[m.condition_id], t, in)

strategyExit(w, c, t, in) ==
  executed(sellNow(mergeNow(cancelLive(w, c, in), MarketOf(c), t, in),
                   MarketOf(c), t, in), c)

\* the exit of the strategy starts for the group of c
NoteExit(w, c) == [w EXCEPT !.obs.exits[c] = @ + 1]

strategyStep(w, c, t, in) ==
  IF w.panic \/ w.bot.activeOrders[c] = <<>> \/ ~strategyDue(w, c, t) THEN w
  ELSE strategyExit(NoteExit(w, c), c, t, in)

checkStrategyExecution(w, t, in) ==
  LET step[k \in 0 .. NumMarkets] ==
        IF k = 0 THEN w ELSE strategyStep(step[k - 1], in.ord[k], t, in)
  IN  step[NumMarkets]

---------------------------------------------------------------------------
(* RunOnce, step 1: discovery and filterUpcoming *)

\* generate15MinTimestamps: the quarter hours after the current one
Boundary(t) == t - (t % MarketSeconds)
Candidates(t) ==
  {c \in Markets : StartTS(c) > Boundary(t)
                   /\ StartTS(c) <= Boundary(t) + QuarterHours * MarketSeconds}

RECURSIVE SortByStart(_)
SortByStart(S) ==
  IF S = {} THEN <<>>
  ELSE LET c == CHOOSE x \in S : \A y \in S : StartTS(x) <= StartTS(y)
       IN  <<c>> \o SortByStart(S \ {c})

\* the markets filterUpcoming appends to out; resolved holds the markets of
\* the list whose IsResolved is set
KeptAmong(found, resolved, t) ==
  {c \in found \ resolved : EndTS(c) - t > 0 - UpcomingPastEnd
                            /\ StartTS(c) - t <= UpcomingHorizon}

\* the markets filterUpcoming returns, sorted by start
UpcomingAmong(found, resolved, t) == SortByStart(KeptAmong(found, resolved, t))

\* filterUpcoming's effect on the Bot: a market seen for the first time is
\* tracked and its orders_placed flag is reset
filterUpcomingAmong(w, found, resolved, t) ==
  LET new == KeptAmong(found, resolved, t) \ w.bot.trackedMarkets
      w1 == [w EXCEPT !.bot.trackedMarkets = @ \cup new,
                      !.bot.ordersPlaced = @ \ new]
  IN  IF new # {} THEN saveMarkets(w1) ELSE w

\* filterUpcoming on a list without resolved markets
UpcomingOf(found, t) == UpcomingAmong(found, {}, t)

filterUpcoming(w, found, t) == filterUpcomingAmong(w, found, {}, t)

---------------------------------------------------------------------------
(* RunOnce, step 2 and step 3.6: placement *)

\* placeSplitOrders: both outcomes of a market show the same best bid and ask
\* here, so the imbalance |midUp - midDown| is 0, below MinImbalance, and the
\* routine returns no orders
placeSplitOrders(w, m, t, in) == <<>>

\* the end of performSplit: an error when nothing was sent
splitResult(res, m, in) ==
  IF res.orders = <<>> THEN [w |-> res.w, orders |-> <<>>, err |-> TRUE, sent |-> <<>>]
  ELSE verified(res, m, in)

\* performSplit: a BUY of each outcome at its best ask for half of OrderSizeUSD
performSplit(w, m, t, in) ==
  LET yn == findYesNoOutcomes(m.outcomes)
      bestAsk == IF in.bid > 0 THEN in.bid + BookSpread ELSE 0
      buySize == IF bestAsk > 0 THEN (OrderSizeUSD * 100000) \div (2 * bestAsk) ELSE 0
      step[k \in 0 .. 2] ==
        IF k = 0 THEN [w |-> w, orders |-> <<>>]
        ELSE IF bestAsk <= 0 \/ buySize <= 10 THEN step[k - 1]
        ELSE placeBuy(step[k - 1], m, (yn.yes \o yn.no)[k], adjustPriceToTick(bestAsk),
                      buySize, t, PostResult(in, k))
  IN  IF yn.yes = <<>> \/ yn.no = <<>>
      THEN [w |-> w, orders |-> <<>>, err |-> TRUE, sent |-> <<>>]
      ELSE splitResult(step[2], m, in)

\* executeSplitStrategy: performSplit, then placeSplitOrders, whose error is
\* dropped
executeSplitStrategy(w, m, t, in) ==
  LET res == performSplit(w, m, t, in)
  IN  IF res.err THEN res
      ELSE [res EXCEPT !.orders = @ \o placeSplitOrders(res.w, m, t, in)]

\* the switch of step 2
placeForMode(w, c, t, mode, in) ==
  CASE mode = "liquidity" -> placeLiquidityOrders(w, MarketOf(c), t, in)
    [] mode = "split" -> executeSplitStrategy(w, MarketOf(c), t, in)
    [] OTHER -> unverified(placeSimpleTestOrders(w, MarketOf(c), TestPrice, TestSize,
                                                 t, in))

\* a recordError that counts nothing
forgetError(w, msg) == w

\* recordError
recordError(w, msg) ==
  [w EXCEPT !.bot.state.error_count = @ + 1, !.bot.state.last_error = Ptr(msg)]

\* a registration that does not set orders_placed
RegisterWithoutFlag(w, c, orders) ==
  saveOrderHistory(saveOrders(
    [w EXCEPT !.bot.activeOrders[c] = orders,
              !.bot.orderHistory = HistPutAll(@, orders),
              !.obs.placements[c] = @ + 1]))

\* what an observer sees when active_orders[cid] is assigned over a group:
\* the market and whether the group held a live order
Replaced(w, c) ==
  IF w.bot.activeOrders[c] = <<>> THEN {}
  ELSE {[cid |-> c, live |-> HasOpen(w.bot.activeOrders[c])]}

\* lines 232-240 of RunOnce (and 125-131 of placeFallbackOrdersIfIdle)
RegisterPlacement(w, c, orders) ==
  saveOrderHistory(saveOrders(
    [w EXCEPT !.bot.ordersPlaced = @ \cup {c},
              !.bot.activeOrders[c] = orders,
              !.bot.orderHistory = HistPutAll(@, orders),
              !.obs.placements[c] = @ + 1,
              !.obs.replaced = @ \cup Replaced(w, c)]))

\* what an observer of the Bot sees when a placement starts: whether some
\* group holds a live order, and whether some unsold group with a filled
\* order has a balance that was read successfully and is above the dust
GroupTokens(orders) ==
  {orders[i].token_id : i \in {j \in 1 .. Len(orders) :
                                 IsYes(orders[j].outcome) \/ IsNo(orders[j].outcome)}}

BalanceSeen(w, c, in) ==
  LET orders == w.bot.activeOrders[c]
      named == {orders[i].outcome : i \in 1 .. Len(orders)}
  IN  /\ in.balOk
      /\ \E a \in named : IsYes(a)
      /\ \E a \in named : IsNo(a)
      /\ \E tk \in GroupTokens(orders) : ERC1155BalanceOf(w, tk) > DustUnits

Snapshot(w, c, in) ==
  [ cid |-> c,
    filled |-> \E d \in Markets : HasFilled(w.bot.activeOrders[d]),
    live |-> \E d \in Markets : \E i \in 1 .. Len(w.bot.activeOrders[d]) :
                w.bot.activeOrders[d][i].status \in Live,
    dust |-> \E d \in Markets :
                /\ w.bot.activeOrders[d] # <<>>
                /\ d \notin w.bot.positionsSold
                /\ \E i \in 1 .. Len(w.bot.activeOrders[d]) :
                      w.bot.activeOrders[d][i].status \in {"FILLED", "PARTIALLY_FILLED"}
                /\ BalanceSeen(w, d, in) ]

\* the Bot found no work in flight and starts placing on market c
NoteIdle(w, c, in) == [w EXCEPT !.obs.snaps = @ \cup {Snapshot(w, c, in)}]

\* what an observer of one placement sees: the balance the precheck read, the
\* orders as they were submitted and as they were returned, the orders the
\* exchange took on during the submission, and the open orders of the market
\* the exchange lists once the submission is over
Batch(pl, c, mode, in, before) ==
  [ cid |-> c, mode |-> mode, usdc |-> in.usdc, listed |-> in.listOk, err |-> pl.err,
    sent |-> pl.sent, stored |-> pl.orders,
    added |-> {[n |-> n, asset_id |-> pl.w.book[n].asset_id, side |-> pl.w.book[n].side] :
                 n \in before + 1 .. Len(pl.w.book)},
    open |-> OpenOrderIds(pl.w, {c}) ]

NoteBatch(pl, c, mode, in, before) ==
  [pl EXCEPT !.w.obs.batches = @ \cup {Batch(pl, c, mode, in, before)}]

\* the orders of a placement are registered unless it failed or placed nothing
register(pl, c) ==
  IF pl.err THEN recordError(NoteFailed(pl.w, "placement"), "insufficient balance")
  ELSE IF pl.orders = <<>> THEN pl.w
  ELSE RegisterPlacement(pl.w, c, pl.orders)

\* one placement: busy check, orders, registration
attempt(hw, c, t, mode, in) ==
  IF hw.busy THEN hw.w
  ELSE register(NoteBatch(placeForMode(NoteIdle(hw.w, c, in), c, t, mode, in),
                          c, mode, in, Len(hw.w.book)), c)

placeIfIdle(w, c, t, mode, in) == attempt(hasActiveMarketWork(w, t, in), c, t, mode, in)

\* the loop of step 2
placementGate(w, up, t, mode, in) ==
  LET step[k \in 0 .. Len(up)] ==
        IF k = 0 THEN w
        ELSE LET acc == step[k - 1]
                 c == up[k]
             IN  IF c \in acc.bot.ordersPlaced \/ ~shouldPlaceOrders(c, t) THEN acc
                 ELSE placeIfIdle(acc, c, t, mode, in)
  IN  step[Len(up)]

\* placeFallbackOrdersIfIdle / placeFallbackLiquidityIfIdle
FallbackPick(w, up, t) ==
  SelectSeq(up, LAMBDA c : StartTS(c) > t /\ c \notin w.bot.ordersPlaced
                            /\ shouldPlaceOrders(c, t))

\* the switch of step 3.6: the liquidity routine in liquidity mode, the test
\* orders in every other mode
FallbackMode(mode) == IF mode = "liquidity" THEN "liquidity" ELSE "test"

fallbackAttempt(hw, up, t, mode, in) ==
  IF hw.busy \/ FallbackPick(hw.w, up, t) = <<>> THEN hw.w
  ELSE attempt(hw, FallbackPick(hw.w, up, t)[1], t, FallbackMode(mode), in)

placeFallbackIfIdle(w, up, t, mode, in) ==
  IF up = <<>> THEN w
  ELSE fallbackAttempt(hasActiveMarketWork(w, t, in), up, t, mode, in)

---------------------------------------------------------------------------
(* The state machine *)

World ==
  [ bot |-> bot, disk |-> disk, book |-> book, burned |-> burned, obs |-> obs,
    panic |-> FALSE ]

EmptyObs ==
  [ terminal |-> {}, placements |-> [c \in Markets |-> 0], snaps |-> {},
    batches |-> {}, exits |-> [c \in Markets |-> 0],
    done |-> {}, failed |-> {}, dropped |-> {}, sells |-> {},
    attempts |-> <<>>, merges |-> <<>>, cancelled |-> {}, work |-> <<>>,
    refresh |-> <<>>, found |-> {}, replaced |-> {} ]

AllGroupRecords(b) ==
  UNION {{b.activeOrders[c][i] : i \in 1 .. Len(b.activeOrders[c])} : c \in Markets}

KnownRecords(b) == b.orderHistory \cup AllGroupRecords(b)

\* updateOrderLists: the pending view holds the live orders of every group whose
\* market is not tracked or ended no more than 300 s ago (no market of the model
\* is resolved)
updateOrderLists(w, t) ==
  [w EXCEPT !.bot.state.pending_orders =
     {o.order_id : o \in {x \in AllGroupRecords(w.bot) :
        /\ x.status \in Live
        /\ \/ x.condition_id \notin w.bot.trackedMarkets
           \/ EndTS(x.condition_id) >= t - PendingPastEnd}}]

\* a panic ends the process: its memory is gone, the files and the outside
\* world stay as they are
Commit(w, nextpc) ==
  /\ w.panic => restarts < MaxRestarts
  /\ bot' = IF w.panic THEN EmptyBot ELSE w.bot
  /\ disk' = w.disk
  /\ book' = w.book
  /\ burned' = w.burned
  /\ pc' = IF w.panic THEN "boot" ELSE nextpc
  /\ restarts' = IF w.panic THEN restarts + 1 ELSE restarts
  /\ obs' = IF w.panic
            THEN [w.obs EXCEPT !.placements = [c \in Markets |-> 0], !.snaps = {},
                              !.batches = {}, !.failed = {}, !.dropped = {},
                              !.cancelled = {}, !.replaced = {}]
            ELSE [w.obs EXCEPT !.terminal =
                    @ \cup {r.order_id : r \in {x \in KnownRecords(w.bot) :
                                                  x.status \in Terminal}}]

\* every answer of the outside world that is not the expected one counts as a
\* fault; the order of map iteration is free
Deviations(in) ==
  Cardinality({f \in DOMAIN in \ {"ord"} : in[f] # DefaultIn[f]})

Charge(in) ==
  /\ faults + Deviations(in) <= MaxFaults
  /\ faults' = faults + Deviations(in)

BoolIf(cond) == IF cond THEN BOOLEAN ELSE {TRUE}
PermsIf(cond) == IF cond THEN Perms ELSE {DefaultIn.ord}

Groups(b) == {c \in Markets : b.activeOrders[c] # <<>>}

LiveIds(b) == {r.order_id : r \in {x \in AllGroupRecords(b) : x.status \in Live}}

GetFailChoices(b) ==
  {{}} \cup {{i} : i \in LiveIds(b)} \cup {LiveIds(b)}

Init ==
  /\ bot = EmptyBot
  /\ disk = EmptyDisk
  /\ book = <<>>
  /\ burned = [c \in Markets |-> 0]
  /\ pc = "boot"
  /\ now = 0
  /\ ticks = 0
  /\ restarts = 0
  /\ orderMode \in {"test", "liquidity"}
  /\ faults = 0
  /\ fills = 0
  /\ obs = EmptyObs

\* the CLI command place-test: BUY test orders on the first discovered
\* market, sent from the same wallet without the Supervisor knowing
CliPlaceTest ==
  /\ pc = "boot" /\ restarts = 0 /\ book = <<>>
  /\ \E k \in 1 .. 2 :
       LET c == SortByStart(Candidates(now))[1]
           up == BookEntry(c, UpToken(c), "BUY", TestPrice, TestSize)
           down == BookEntry(c, DownToken(c), "BUY", TestPrice, TestSize)
       IN  book' = IF k = 1 THEN <<up>> ELSE <<up, down>>
  /\ UNCHANGED <<bot, disk, burned, pc, now, ticks, restarts, orderMode,
                 faults, fills, obs>>

\* lines 116-124 of Start: the credentials are set when they could be derived
SetCreds(w, in) == [w EXCEPT !.bot.creds = in.creds]

recoverWithCreds(w, t, in) == recoverExistingOrders(w, t, Auth(w, in))

\* Bot.Start: load the three files, derive the credentials, then recover the
\* open orders
Start ==
  /\ pc = "boot"
  /\ \E ord \in PermsIf(Cardinality({c \in Markets : disk.orders[c] # <<>>}) > 1),
        listOk \in BoolIf(book # <<>>),
        getOk \in BoolIf(book # <<>>),
        sized \in BoolIf(book # <<>>),
        creds \in BOOLEAN :
       LET in == [DefaultIn EXCEPT !.ord = ord, !.listOk = listOk, !.sized = sized,
                    !.creds = creds,
                    !.getFail = IF getOk THEN {} ELSE {OrdId(n) : n \in 1 .. Len(book)}]
           loaded == loadOrders(loadOrderHistory(loadMarkets(World)), ord)
       IN  /\ Charge(in)
           /\ Commit(recoverWithCreds(SetCreds(loaded, in), now, in), "started")
  /\ UNCHANGED <<now, ticks, orderMode, fills>>

\* the answers of the outside world that matter to a placement phase
PlacementPossible(w, up, t) ==
  \E i \in 1 .. Len(up) : up[i] \notin w.bot.ordersPlaced /\ shouldPlaceOrders(up[i], t)

PositionsPending(w) ==
  \E c \in Groups(w.bot) : c \notin w.bot.positionsSold /\ HasFilled(w.bot.activeOrders[c])

PostPairs(mode) ==
  IF mode = "liquidity"
  THEN {<<a, b>> : a \in PostOutcomes, b \in PostOutcomes}
  ELSE {<<a, b>> : a \in PostOutcomes \ {"create_failed"},
                   b \in PostOutcomes \ {"create_failed"}}

PlacementInputs(w, up, t, mode, ords, left) ==
  IF w.panic \/ ~PlacementPossible(w, up, t) THEN {DefaultIn}
  ELSE IF left = 0 THEN {[DefaultIn EXCEPT !.ord = o] : o \in ords}
  ELSE { [DefaultIn EXCEPT !.post = p, !.usdc = u, !.listOk = l, !.bid = b,
                           !.balOk = bo, !.ord = o] :
           p \in PostPairs(mode), u \in UsdcReadings,
           l \in BoolIf(mode = "liquidity"),
           b \in IF mode = "liquidity" THEN {0, BookBid} ELSE {BookBid},
           bo \in BoolIf(PositionsPending(w)),
           o \in ords }

\* the answers of the outside world that matter to checkActiveOrders and to
\* checkStrategyExecution
SellPossible(w, t) ==
  \E c \in Groups(w.bot) :
     c \in w.bot.trackedMarkets /\ c \notin w.bot.positionsSold
     /\ (t >= EndTS(c) - SellBeforeEnd \/ strategyDue(w, c, t))

SellPosts == {<<a, a>> : a \in PostOutcomes \ {"create_failed"}}

ExitInputs(w, t, getFails, ords, left) ==
  IF w.panic \/ Groups(w.bot) = {} THEN {DefaultIn}
  ELSE IF left = 0 THEN {[DefaultIn EXCEPT !.ord = o] : o \in ords}
  ELSE { [DefaultIn EXCEPT !.getFail = g, !.cancelOk = co, !.balOk = bo,
                           !.mergeOk = mo, !.bid = b, !.post = p, !.ord = o] :
           g \in getFails,
           co \in BoolIf(LiveIds(w.bot) # {}),
           bo \in BOOLEAN,
           mo \in BoolIf(PositionsPending(w)),
           b \in IF SellPossible(w, t) THEN {0, BookBid} ELSE {BookBid},
           p \in IF SellPossible(w, t) THEN SellPosts ELSE {DefaultIn.post},
           o \in ords }

\* the orders in which Go may iterate over the map of groups; one order is
\* drawn for the placement loop and one for the rest of the tick
GroupOrders(w) == PermsIf(Cardinality(Groups(w.bot)) > 1)

\* a phase of RunOnce is not reached once the process has panicked
Unless(w, next) == IF w.panic THEN w ELSE next

Within(n) == faults + n <= MaxFaults
Left(n) == MaxFaults - faults - n

\* Bot.RunOnce: discovery and filterUpcoming, the placement loop,
\* checkActiveOrders, checkStrategyExecution, the fallback placement and
\* cleanupOldMarkets; discovery never fails, it only misses markets
RunOnce ==
  /\ pc \in {"started", "idle"}
  /\ ticks < MaxTicks
  /\ ticks' = ticks + 1
  /\ \E step \in Steps : \E found \in SUBSET Candidates(now + step) :
       LET t == now + step
           up == UpcomingOf(found, t)
           f1 == IF found = Candidates(t) THEN 0 ELSE 1
       IN
       /\ Within(f1)
       /\ now' = t
       /\ \E w1 \in {filterUpcoming([World EXCEPT !.obs.snaps = {}, !.obs.batches = {},
                                                        !.obs.failed = {}, !.obs.dropped = {},
                                                        !.obs.sells = {}, !.obs.attempts = <<>>,
                                                        !.obs.cancelled = {}],
                                           found, t)} :
          \E in2 \in PlacementInputs(w1, up, t, orderMode, GroupOrders(w1), Left(f1)) :
          /\ Within(f1 + Deviations(in2))
          /\ \E w2 \in {placementGate(w1, up, t, orderMode, Auth(w1, in2))} :
             \E in3 \in ExitInputs(w2, t, GetFailChoices(w2.bot), GroupOrders(w2),
                                       Left(f1 + Deviations(in2))) :
             /\ Within(f1 + Deviations(in2) + Deviations(in3))
             /\ \E w3 \in {checkActiveOrders(w2, t, Auth(w2, in3))} :
                \E in4 \in ExitInputs(w3, t, {{}}, {in3.ord},
                                          Left(f1 + Deviations(in2) + Deviations(in3))) :
                /\ Within(f1 + Deviations(in2) + Deviations(in3) + Deviations(in4))
                /\ \E w4 \in {Unless(w3, checkStrategyExecution(w3, t, Auth(w3, in4)))} :
                   \E in5 \in PlacementInputs(w4, up, t, orderMode, {in3.ord},
                                 Left(f1 + Deviations(in2) + Deviations(in3)
                                      + Deviations(in4))) :
                   /\ Within(f1 + Deviations(in2) + Deviations(in3) + Deviations(in4)
                             + Deviations(in5))
                   /\ faults' = faults + f1 + Deviations(in2) + Deviations(in3)
                                + Deviations(in4) + Deviations(in5)
                   /\ Commit(Unless(w4,
                               updateOrderLists(
                                 cleanupOldMarkets(
                                   placeFallbackIfIdle(w4, up, t, orderMode,
                                                       Auth(w4, in5)),
                                   t, [DefaultIn EXCEPT !.ord = in3.ord]), t)),
                             "idle")
  /\ UNCHANGED <<orderMode, fills>>

\* the process is stopped and started again
Restart ==
  /\ pc = "idle"
  /\ restarts < MaxRestarts
  /\ pc' = "boot"
  /\ bot' = EmptyBot
  /\ restarts' = restarts + 1
  /\ obs' = [obs EXCEPT !.placements = [c \in Markets |-> 0], !.snaps = {},
                         !.batches = {}, !.failed = {}, !.dropped = {},
                              !.cancelled = {}, !.replaced = {}]
  /\ UNCHANGED <<disk, book, burned, now, ticks, orderMode, faults, fills>>

\* the exchange matches a resting order: half of what is left, or all of it
ExchangeFill ==
  /\ pc \in {"boot", "idle"}
  /\ fills < MaxFills
  /\ fills' = fills + 1
  /\ \E n \in 1 .. Len(book) : \E all \in BOOLEAN :
       LET e == book[n]
           left == e.original_size - e.size_matched
           amt == IF all THEN left ELSE left \div 2
       IN  /\ e.status = "LIVE"
           /\ amt > 0
           /\ e.side = "SELL" => ERC1155BalanceOf(World, e.asset_id) >= amt
           /\ book' = [book EXCEPT ![n].size_matched = @ + amt,
                                   ![n].status = IF amt = left THEN "MATCHED" ELSE @]
  /\ UNCHANGED <<bot, disk, burned, pc, now, ticks, restarts, orderMode,
                 faults, obs>>

Next ==
  \/ CliPlaceTest
  \/ Start
  \/ RunOnce
  \/ Restart
  \/ ExchangeFill

Spec == Init /\ [][Next]_vars

---------------------------------------------------------------------------
(* The save-load round trip on its own: a Bot that holds records built by   *)
(* the Supervisor's own constructors saves both files, and a fresh Bot      *)
(* loads them.                                                              *)

MaxGroupLen == 2

\* records as placement, reconciliation and a failed submission leave them
PersistSamples(c) ==
  LET m == MarketOf(c)
      placed == orderRecordForSide(m, m.outcomes[1], "BUY", OrdId(c), TestPrice, TestSize,
                                   TestPrice * TestSize, Ptr(StrategyName), TickStep)
      matched == [status |-> "MATCHED", size_matched |-> TestSize,
                  original_size |-> TestSize]
  IN  { placed,
        ApplyDetails([placed EXCEPT !.order_id = OrdId(NumMarkets + c)], matched,
                     "FILLED", 2 * TickStep),
        testFailedRecord(m, m.outcomes[2], TestPrice, TestSize, TickStep,
                         "order submission failed") }

GroupsOf(c) ==
  UNION {[1 .. n -> PersistSamples(c)] : n \in 0 .. MaxGroupLen}

\* the world of a Bot that has done nothing yet
FreshWorld ==
  [ bot |-> EmptyBot, disk |-> EmptyDisk, book |-> <<>>,
    burned |-> [c \in Markets |-> 0], obs |-> EmptyObs, panic |-> FALSE ]

\* the MERGE records of the markets in M, as trackMerge writes them
MergesOf(M) ==
  UNION {trackMerge(FreshWorld, MarketOf(c), TestSize,
                    2 * TickStep).bot.orderHistory : c \in M}

RECURSIVE Concat(_, _)
Concat(groups, k) == IF k = 0 THEN <<>> ELSE Concat(groups, k - 1) \o groups[k]

InitPersist ==
  /\ disk = EmptyDisk
  /\ book = <<>>
  /\ burned = [c \in Markets |-> 0]
  /\ pc = "dirty"
  /\ now = 2 * TickStep
  /\ ticks = 0
  /\ restarts = 0
  /\ orderMode = "test"
  /\ faults = 0
  /\ fills = 0
  /\ \E groups \in [Markets -> UNION {GroupsOf(c) : c \in Markets}] :
     \E M \in SUBSET Markets :
        /\ \A c \in Markets : groups[c] \in GroupsOf(c)
        /\ bot = [EmptyBot EXCEPT
                    !.activeOrders = groups,
                    !.orderHistory = HistPutAll(MergesOf(M), Concat(groups, NumMarkets))]
  /\ obs = [original |-> bot]

\* both files are saved, as after every registration or changed reconciliation
PersistSave ==
  /\ pc = "dirty"
  /\ pc' = "saved"
  /\ disk' = saveOrderHistory(saveOrders(World)).disk
  /\ UNCHANGED <<bot, book, burned, now, ticks, restarts, orderMode, faults, fills, obs>>

\* a new process loads the markets, the history file, then the orders file
PersistLoad ==
  /\ pc = "saved"
  /\ pc' = "loaded"
  /\ \E ord \in Perms :
        bot' = loadOrders(loadOrderHistory(loadMarkets([World EXCEPT !.bot = EmptyBot])),
                          ord).bot
  /\ UNCHANGED <<disk, book, burned, now, ticks, restarts, orderMode, faults, fills, obs>>

NextPersist ==
  \/ PersistSave
  \/ PersistLoad

SpecPersist == InitPersist /\ [][NextPersist]_vars

---------------------------------------------------------------------------
(* The mutex: a tick and a dashboard request, one memory access at a time *)

\* the fields of the Bot the two goroutines meet on: the mutex ("free" when nobody
\* holds it), the two maps
\* filterUpcoming writes, the BotState, and the Outcomes arrays that
\* state.ActiveMarkets points into (one version number per market)
MutexBot ==
  [ mu |-> "free", trackedMarkets |-> {}, ordersPlaced |-> {},
    state |-> [LastCheck |-> 0, ActiveMarkets |-> {}, USDCBalance |-> 0, TotalPNL |-> 0],
    outcomes |-> [c \in Markets |-> 0] ]

\* the sections of RunOnce that write b.state between Lock and Unlock, in order
LockedFields == <<"LastCheck", "ActiveMarkets", "USDCBalance", "TotalPNL">>

\* where RunOnce continues after the locked section number n
AfterSection(p, n) ==
  CASE n = 1 -> [p EXCEPT !.tick = "filter"]
    [] n = 2 -> [p EXCEPT !.tick = "gate", !.k = 1]
    [] n = 3 -> [p EXCEPT !.tick = "lock", !.section = 4]
    [] OTHER -> [p EXCEPT !.tick = "idle", !.section = 0, !.k = 0, !.found = {}]

\* what goroutine g is inside of: the object and whether it writes it
Touches(g) ==
  CASE g = "tick" /\ pc.tick = "write" -> {[obj |-> "state", write |-> TRUE]}
    [] g = "tick" /\ pc.tick \in {"filtering", "flagging"} ->
         {[obj |-> "ordersPlaced", write |-> TRUE]}
    [] g = "tick" /\ pc.tick = "pricing" -> {[obj |-> "outcomes", write |-> TRUE]}
    [] g = "dash" /\ pc.dash = "read" /\ pc.call = "GetState" ->
         {[obj |-> "state", write |-> FALSE]}
    [] g = "dash" /\ pc.dash = "read" /\ pc.call = "OrdersPlaced" ->
         {[obj |-> "ordersPlaced", write |-> FALSE]}
    [] g = "dash" /\ pc.dash = "encoding" -> {[obj |-> "outcomes", write |-> FALSE]}
    [] OTHER -> {}

\* what a read of the map returns while another goroutine writes it: either
\* value, or the runtime's fatal "concurrent map read and map write"
MapRead(c) ==
  IF \E a \in Touches("tick") : a.obj = "ordersPlaced"
  THEN {"true", "false", "fatal"}
  ELSE {IF c \in bot.ordersPlaced THEN "true" ELSE "false"}

\* what a read of a market's Outcomes returns while fillMarketPrices writes them
OutcomesRead(c) ==
  IF pc.tick = "pricing" /\ pc.k = c
  THEN {bot.outcomes[c], ticks + 1}
  ELSE {bot.outcomes[c]}

InitMutex ==
  /\ bot = MutexBot
  /\ disk = EmptyDisk
  /\ book = <<>>
  /\ burned = [c \in Markets |-> 0]
  /\ pc = [tick |-> "idle", section |-> 0, k |-> 0, found |-> {},
           dash |-> "idle", call |-> "none", cid |-> 0]
  /\ now = 0
  /\ ticks = 0
  /\ restarts = 0
  /\ orderMode \in {"test", "liquidity"}
  /\ faults = 0
  /\ fills = 0
  /\ obs = [snapshot |-> MutexBot.state, placed |-> "none", outcomes |-> 0]

\* the scheduler calls RunOnce, which goes for its first locked section
TickStart ==
  /\ pc.tick = "idle"
  /\ ticks < MaxTicks
  /\ pc' = [pc EXCEPT !.tick = "lock", !.section = 1]
  /\ UNCHANGED <<bot, disk, book, burned, now, ticks, restarts, orderMode, faults,
                 fills, obs>>

\* b.mu.Lock() in RunOnce
TickLock ==
  /\ pc.tick = "lock"
  /\ bot.mu = "free"
  /\ bot' = [bot EXCEPT !.mu = "tick"]
  /\ pc' = [pc EXCEPT !.tick = "write"]
  /\ UNCHANGED <<disk, book, burned, now, ticks, restarts, orderMode, faults, fills, obs>>

\* the write of one field of b.state and b.mu.Unlock()
TickWrite ==
  /\ pc.tick = "write"
  /\ bot' = [bot EXCEPT !.mu = "free",
                        !.state[LockedFields[pc.section]] =
                            IF pc.section = 2 THEN pc.found ELSE ticks + 1]
  /\ pc' = AfterSection(pc, pc.section)
  /\ ticks' = IF pc.section = Len(LockedFields) THEN ticks + 1 ELSE ticks
  /\ UNCHANGED <<disk, book, burned, now, restarts, orderMode, faults, fills, obs>>

\* filterUpcoming: the discovered markets; a new one is entered in both maps
TickFilter ==
  /\ pc.tick = "filter"
  /\ \E found \in SUBSET Markets :
        pc' = IF found \subseteq bot.trackedMarkets
              THEN [pc EXCEPT !.tick = "lock", !.section = 2, !.found = found]
              ELSE [pc EXCEPT !.tick = "filtering", !.found = found]
  /\ UNCHANGED <<bot, disk, book, burned, now, ticks, restarts, orderMode, faults,
                 fills, obs>>

\* the end of filterUpcoming's writes b.ordersPlaced[cid] = false
TickFiltered ==
  /\ pc.tick = "filtering"
  /\ bot' = [bot EXCEPT !.trackedMarkets = @ \cup pc.found,
                        !.ordersPlaced = @ \ (pc.found \ bot.trackedMarkets)]
  /\ pc' = [pc EXCEPT !.tick = "lock", !.section = 2]
  /\ UNCHANGED <<disk, book, burned, now, ticks, restarts, orderMode, faults, fills, obs>>

\* the loop over the upcoming markets: a market with its flag set is skipped, another
\* is placed: through fillMarketPrices in liquidity mode, straight away in test mode
TickGate ==
  /\ pc.tick = "gate"
  /\ pc' = IF pc.k > NumMarkets THEN [pc EXCEPT !.tick = "lock", !.section = 3]
           ELSE IF pc.k \notin pc.found \/ pc.k \in bot.ordersPlaced
                THEN [pc EXCEPT !.k = @ + 1]
           ELSE IF orderMode = "liquidity" THEN [pc EXCEPT !.tick = "pricing"]
           ELSE [pc EXCEPT !.tick = "flagging"]
  /\ UNCHANGED <<bot, disk, book, burned, now, ticks, restarts, orderMode, faults,
                 fills, obs>>

\* the end of fillMarketPrices' writes m.Outcomes[j].BestBid = &bid
TickPriced ==
  /\ pc.tick = "pricing"
  /\ bot' = [bot EXCEPT !.outcomes[pc.k] = ticks + 1]
  /\ pc' = [pc EXCEPT !.tick = "flagging"]
  /\ UNCHANGED <<disk, book, burned, now, ticks, restarts, orderMode, faults, fills, obs>>

\* the end of the write b.ordersPlaced[m.ConditionID] = true
TickFlagged ==
  /\ pc.tick = "flagging"
  /\ bot' = [bot EXCEPT !.ordersPlaced = @ \cup {pc.k}]
  /\ pc' = [pc EXCEPT !.tick = "gate", !.k = @ + 1]
  /\ UNCHANGED <<disk, book, burned, now, ticks, restarts, orderMode, faults, fills, obs>>

\* a request arrives: the dashboard calls GetState, another caller OrdersPlaced(cid)
DashCall ==
  /\ pc.dash = "idle"
  /\ \E call \in {"GetState", "OrdersPlaced"} : \E c \in Markets :
        pc' = [pc EXCEPT !.dash = "lock", !.call = call,
                         !.cid = IF call = "OrdersPlaced" THEN c ELSE 0]
  /\ UNCHANGED <<bot, disk, book, burned, now, ticks, restarts, orderMode, faults,
                 fills, obs>>

\* b.mu.Lock() in GetState and in OrdersPlaced
DashLock ==
  /\ pc.dash = "lock"
  /\ bot.mu = "free"
  /\ bot' = [bot EXCEPT !.mu = "dash"]
  /\ pc' = [pc EXCEPT !.dash = "read"]
  /\ UNCHANGED <<disk, book, burned, now, ticks, restarts, orderMode, faults, fills, obs>>

\* GetState: return b.state and the deferred Unlock; the caller goes on to read
\* the markets of the copy
GetState ==
  /\ pc.dash = "read"
  /\ pc.call = "GetState"
  /\ obs' = [obs EXCEPT !.snapshot = bot.state]
  /\ bot' = [bot EXCEPT !.mu = "free"]
  /\ pc' = [pc EXCEPT !.dash = "encoding"]
  /\ UNCHANGED <<disk, book, burned, now, ticks, restarts, orderMode, faults, fills>>

\* handleMarkets: outcomesForAPI reads the Outcomes of a market of the copy
DashEncode ==
  /\ pc.dash = "encoding"
  /\ \/ /\ obs.snapshot.ActiveMarkets = {}
        /\ obs' = obs
     \/ \E c \in obs.snapshot.ActiveMarkets : \E v \in OutcomesRead(c) :
          obs' = [obs EXCEPT !.outcomes = v]
  /\ pc' = [pc EXCEPT !.dash = "idle", !.call = "none"]
  /\ UNCHANGED <<bot, disk, book, burned, now, ticks, restarts, orderMode, faults, fills>>

\* OrdersPlaced: return b.ordersPlaced[conditionID] and the deferred Unlock
OrdersPlaced ==
  /\ pc.dash = "read"
  /\ pc.call = "OrdersPlaced"
  /\ \E r \in MapRead(pc.cid) :
        /\ obs' = [obs EXCEPT !.placed = r]
        /\ pc' = IF r = "fatal"
                 THEN [pc EXCEPT !.dash = "dead", !.tick = "dead"]
                 ELSE [pc EXCEPT !.dash = "idle", !.call = "none", !.cid = 0]
  /\ bot' = [bot EXCEPT !.mu = "free"]
  /\ UNCHANGED <<disk, book, burned, now, ticks, restarts, orderMode, faults, fills>>

NextMutex ==
  \/ TickStart
  \/ TickLock
  \/ TickWrite
  \/ TickFilter
  \/ TickFiltered
  \/ TickGate
  \/ TickPriced
  \/ TickFlagged
  \/ DashCall
  \/ DashLock
  \/ GetState
  \/ DashEncode
  \/ OrdersPlaced

SpecMutex == InitMutex /\ [][NextMutex]_vars

---------------------------------------------------------------------------
(* Shutdown: the command run, the bot loop and an interrupt signal *)

\* the phases of RunOnce, none of which looks at the context
TickPhases == 5

\* Stop: b.state.IsRunning = false under the mutex
Stop(b) == [b EXCEPT !.state.is_running = FALSE]

\* after b.Start: the context is live, the loop is at its first select; in mode
\* bot the loop runs in the command's goroutine, in modes dashboard and both in
\* a goroutine of its own while the command serves the dashboard
InitStop ==
  /\ bot = [state |-> [is_running |-> TRUE]]
  /\ disk = EmptyDisk
  /\ book = <<>>
  /\ burned = [c \in Markets |-> 0]
  /\ \E mode \in {"bot", "dashboard", "both"} :
        pc = [mode |-> mode, ctx |-> "live", main |-> "running", loop |-> "select",
              phase |-> 0]
  /\ now = 0
  /\ ticks = 0
  /\ restarts = 0
  /\ orderMode \in {"test", "liquidity"}
  /\ faults = 0
  /\ fills = 0
  /\ obs = [finished |-> 0]

\* signalContext: the signal arrives and the goroutine calls cancel
Interrupt ==
  /\ pc.ctx = "live"
  /\ pc.main = "running"
  /\ pc' = [pc EXCEPT !.ctx = "cancelled"]
  /\ UNCHANGED <<bot, disk, book, burned, now, ticks, restarts, orderMode, faults,
                 fills, obs>>

\* the first select of runBotLoop: stop on a cancelled context, a tick otherwise
LoopSelect ==
  /\ pc.loop = "select"
  /\ pc.main = "running"
  /\ \/ /\ pc.ctx = "cancelled"
        /\ bot' = Stop(bot)
        /\ pc' = [pc EXCEPT !.loop = "returned"]
     \/ /\ pc.ctx = "live"
        /\ ticks < MaxTicks
        /\ bot' = bot
        /\ pc' = [pc EXCEPT !.loop = "tick", !.phase = 1]
  /\ UNCHANGED <<disk, book, burned, now, ticks, restarts, orderMode, faults, fills, obs>>

\* RunOnce goes from a phase to the next, the context cancelled or not
TickPhase ==
  /\ pc.loop = "tick"
  /\ pc.main = "running"
  /\ pc' = IF pc.phase < TickPhases THEN [pc EXCEPT !.phase = @ + 1]
           ELSE [pc EXCEPT !.loop = "sleep", !.phase = 0]
  /\ ticks' = IF pc.phase < TickPhases THEN ticks ELSE ticks + 1
  /\ obs' = IF pc.phase < TickPhases THEN obs ELSE [obs EXCEPT !.finished = @ + 1]
  /\ UNCHANGED <<bot, disk, book, burned, now, restarts, orderMode, faults, fills>>

\* the second select: the ticker fires
SleepWake ==
  /\ pc.loop = "sleep"
  /\ pc.main = "running"
  /\ pc' = [pc EXCEPT !.loop = "select"]
  /\ UNCHANGED <<bot, disk, book, burned, now, ticks, restarts, orderMode, faults,
                 fills, obs>>

\* the second select: the context is done
SleepStop ==
  /\ pc.loop = "sleep"
  /\ pc.main = "running"
  /\ pc.ctx = "cancelled"
  /\ bot' = Stop(bot)
  /\ pc' = [pc EXCEPT !.loop = "returned"]
  /\ UNCHANGED <<disk, book, burned, now, ticks, restarts, orderMode, faults, fills, obs>>

\* mode bot: runBotLoop has returned and so does the command
BotReturn ==
  /\ pc.mode = "bot"
  /\ pc.loop = "returned"
  /\ pc.main = "running"
  /\ pc' = [pc EXCEPT !.main = "exited"]
  /\ UNCHANGED <<bot, disk, book, burned, now, ticks, restarts, orderMode, faults,
                 fills, obs>>

\* modes dashboard and both: the server is shut down on the cancelled context,
\* Run returns, the command returns and the process ends with all its goroutines
ServeReturn ==
  /\ pc.mode # "bot"
  /\ pc.ctx = "cancelled"
  /\ pc.main = "running"
  /\ pc' = [pc EXCEPT !.main = "exited",
                      !.loop = IF @ = "returned" THEN @ ELSE "killed"]
  /\ UNCHANGED <<bot, disk, book, burned, now, ticks, restarts, orderMode, faults,
                 fills, obs>>

\* the steps of the loop's goroutine
runBotLoop == LoopSelect \/ TickPhase \/ SleepWake \/ SleepStop

\* the steps of the command's goroutine
newRunCmd == BotReturn \/ ServeReturn

NextStop ==
  \/ Interrupt
  \/ LoopSelect
  \/ TickPhase
  \/ SleepWake
  \/ SleepStop
  \/ BotReturn
  \/ ServeReturn

\* both goroutines are scheduled as long as the process lives
SpecStop ==
  InitStop /\ [][NextStop]_vars /\ WF_vars(runBotLoop) /\ WF_vars(newRunCmd)

---------------------------------------------------------------------------
(* The periodic merge: reconciliation passes a few seconds apart *)

\* passes are MergeWaitStep seconds apart, MergeWaits times at most
MergeWaitStep == 10
MergeWaits == 6

\* a Bot that has placed its two test orders for one market, each of them
\* unmatched or half matched since
InitMerge ==
  /\ \E c \in Markets :
     \E pl \in {placeSimpleTestOrders(filterUpcoming(FreshWorld, {c}, TickStep), MarketOf(c),
                                      TestPrice, TestSize, TickStep, DefaultIn)} :
     \E w \in {RegisterPlacement(pl.w, c, pl.orders)} :
        /\ bot = w.bot
        /\ disk = w.disk
        /\ \E pre \in [1 .. Len(w.book) -> {0, TestSize \div 2}] :
              book = [n \in 1 .. Len(w.book) |->
                        [w.book[n] EXCEPT !.size_matched = pre[n]]]
        /\ obs = w.obs
  /\ burned = [c \in Markets |-> 0]
  /\ pc = "idle"
  /\ now = TickStep
  /\ ticks = 0
  /\ restarts = 0
  /\ orderMode = "test"
  /\ faults = 0
  /\ fills = 0

\* lines 492-502 and 522-525 of checkActiveOrders for the group of c; what an
\* observer sees of the pass is kept in obs.merges
MergePass ==
  /\ \E c \in bot.trackedMarkets : \E balOk \in BOOLEAN : \E mergeOk \in BOOLEAN :
     \E tok \in {inferYesNoTokenIDs(MarketOf(c).outcomes, bot.activeOrders[c])} :
     \E w \in {saveIfChanged(mergeGroup([w |-> World, changed |-> FALSE], c, now,
                                        [DefaultIn EXCEPT !.balOk = balOk,
                                                          !.mergeOk = mergeOk]))} :
        /\ bot' = w.bot
        /\ disk' = w.disk
        /\ burned' = w.burned
        /\ obs' = [w.obs EXCEPT !.merges =
                     <<[ cid |-> c, balOk |-> balOk, mergeOk |-> mergeOk,
                         yes |-> ERC1155BalanceOf(World, tok.yes),
                         no |-> ERC1155BalanceOf(World, tok.no),
                         already |-> bot.mergedAmounts[c],
                         called |-> Len(w.obs.attempts) > Len(obs.attempts),
                         after |-> w.bot.mergedAmounts[c],
                         burned |-> w.burned[c] - burned[c],
                         added |-> w.bot.orderHistory \ bot.orderHistory,
                         removed |-> bot.orderHistory \ w.bot.orderHistory ]>>]
  /\ UNCHANGED <<book, pc, now, ticks, restarts, orderMode, faults, fills>>

\* the next pass comes MergeWaitStep seconds later
MergeWait ==
  /\ now < TickStep + MergeWaits * MergeWaitStep
  /\ now' = now + MergeWaitStep
  /\ UNCHANGED <<bot, disk, book, burned, pc, ticks, restarts, orderMode, faults,
                 fills, obs>>

NextMerge ==
  \/ MergePass
  \/ MergeWait
  \/ ExchangeFill

SpecMerge == InitMerge /\ [][NextMerge]_vars

---------------------------------------------------------------------------
(* hasActiveMarketWork on its own.  The Bot holds the groups the placement  *)
(* code built for some of the markets, each placed one TickStep before its  *)
(* market's start; the exchange fills, time passes to the neighbourhood of  *)
(* a market's end + 300 s, checkActiveOrders runs, and the busy check is    *)
(* applied to the Bot as it then is.                                        *)

WorkTimes == {EndTS(c) + CancelAfterEnd + d : c \in Markets, d \in {0, 1}}

\* the Bot after the groups of the markets in S were placed
PlacedWorld(S) ==
  LET step[k \in 0 .. NumMarkets] ==
        IF k = 0 THEN FreshWorld
        ELSE IF k \notin S THEN step[k - 1]
        ELSE LET pl == placeSimpleTestOrders(
                         filterUpcoming(step[k - 1], {k}, StartTS(k) - TickStep),
                         MarketOf(k), TestPrice, TestSize, StartTS(k) - TickStep,
                         DefaultIn)
             IN  RegisterPlacement(pl.w, k, pl.orders)
  IN  step[NumMarkets]

InitWork ==
  /\ \E S \in SUBSET Markets \ {{}} :
     \E w \in {PlacedWorld(S)} :
        /\ bot = w.bot
        /\ disk = w.disk
        /\ book = w.book
        /\ obs = w.obs
        /\ now \in {StartTS(c) - TickStep : c \in S}
        /\ \A c \in S : StartTS(c) - TickStep <= now
  /\ burned = [c \in Markets |-> 0]
  /\ pc = "idle"
  /\ ticks = 0
  /\ restarts = 0
  /\ orderMode = "test"
  /\ faults = 0
  /\ fills = 0

\* time passes
WorkWait ==
  /\ pc = "idle"
  /\ \E t \in WorkTimes : t > now /\ now' = t
  /\ UNCHANGED <<bot, disk, book, burned, pc, ticks, restarts, orderMode, faults,
                 fills, obs>>

\* step 3 of a tick
WorkSweep ==
  /\ pc = "idle"
  /\ ticks < MaxTicks
  /\ ticks' = ticks + 1
  /\ \E ord \in Perms :
     \E w \in {checkActiveOrders(World, now, [DefaultIn EXCEPT !.ord = ord])} :
        /\ ~w.panic
        /\ bot' = w.bot
        /\ disk' = w.disk
        /\ book' = w.book
        /\ burned' = w.burned
        /\ obs' = w.obs
  /\ UNCHANGED <<pc, now, restarts, orderMode, faults, fills>>

\* the busy check of step 2 (and of the fallback); obs.work keeps the Bot it
\* was applied to and its answer
WorkCheck ==
  /\ pc = "idle"
  /\ pc' = "checked"
  /\ \E ord \in Perms : \E balOk \in BOOLEAN :
     \E r \in {hasActiveMarketWork(World, now, [DefaultIn EXCEPT !.ord = ord,
                                                                !.balOk = balOk])} :
        /\ bot' = r.w.bot
        /\ obs' = [obs EXCEPT !.work = <<[ t |-> now, busy |-> r.busy, balOk |-> balOk,
                                          before |-> bot, wallet |-> World ]>>]
  /\ UNCHANGED <<disk, book, burned, now, ticks, restarts, orderMode, faults, fills>>

NextWork ==
  \/ WorkWait
  \/ WorkSweep
  \/ WorkCheck
  \/ ExchangeFill

SpecWork == InitWork /\ [][NextWork]_vars

---------------------------------------------------------------------------
(* The reconciliation of a tracked group on its own.  The Bot holds the     *)
(* group the placement code built for market 1; each record stands at a     *)
(* status an earlier pass may have left it at, and the exchange answers     *)
(* GET /order with any status of its vocabulary and any matched size that   *)
(* is not below what the record's status has already seen.                  *)

RemoteStatuses == {"LIVE", "OPEN", "PLACED", "ACTIVE", "MATCHED", "CANCELLED", "DELAYED"}
LocalStatuses == {"PLACED", "PARTIALLY_FILLED", "FILLED", "CANCELLED"}
MatchedSizes == {0, TestSize \div 2, TestSize}

\* the record as an earlier pass left it when it saw the status st
SeenAt(o, st, t) ==
  IF st = "PLACED" THEN o
  ELSE [o EXCEPT !.status = st,
                 !.size_matched = IF st = "FILLED" THEN Ptr(o.size)
                                  ELSE IF st = "PARTIALLY_FILLED" THEN Ptr(o.size \div 2)
                                  ELSE @,
                 !.filled_at = IF st = "FILLED" THEN Ptr(t) ELSE @]

InitReconcile ==
  /\ \E w \in {PlacedWorld({1})} :
     \E st \in [1 .. Len(w.bot.activeOrders[1]) -> LocalStatuses] :
     \E rs \in [1 .. Len(w.book) -> RemoteStatuses] :
     \E rm \in [1 .. Len(w.book) -> MatchedSizes] :
        /\ \A n \in 1 .. Len(w.book) :
              /\ st[n] = "FILLED" => rm[n] = TestSize
              /\ st[n] = "PARTIALLY_FILLED" => rm[n] > 0
        /\ bot = [w.bot EXCEPT
                    !.activeOrders[1] =
                       [n \in 1 .. Len(@) |-> SeenAt(@[n], st[n], StartTS(1))],
                    !.orderHistory =
                       {SeenAt(w.bot.activeOrders[1][n], st[n], StartTS(1)) :
                          n \in 1 .. Len(w.bot.activeOrders[1])}]
        /\ disk = w.disk
        /\ book = [n \in 1 .. Len(w.book) |->
                     [w.book[n] EXCEPT !.status = rs[n], !.size_matched = rm[n]]]
        /\ obs = w.obs
  /\ burned = [c \in Markets |-> 0]
  /\ pc = "idle"
  /\ now = StartTS(1) + TickStep
  /\ ticks = 0
  /\ restarts = 0
  /\ orderMode = "test"
  /\ faults = 0
  /\ fills = 0

\* lines 455-490 of checkActiveOrders for the group of market 1, and the save
\* of lines 522-525; obs.refresh keeps the group as it was and the ids whose
\* GET /order failed
Reconcile ==
  /\ pc = "idle"
  /\ pc' = "checked"
  /\ \E fail \in SUBSET {OrdId(n) : n \in 1 .. Len(book)} :
     \E w \in {saveIfChanged(reconcileGroup([w |-> World, changed |-> FALSE], 1, now,
                                             [DefaultIn EXCEPT !.getFail = fail]))} :
        /\ bot' = w.bot
        /\ disk' = w.disk
        /\ obs' = [w.obs EXCEPT !.refresh =
                      <<[ before |-> bot.activeOrders[1], getFail |-> fail ]>>]
  /\ UNCHANGED <<book, burned, now, ticks, restarts, orderMode, faults, fills>>

NextReconcile == Reconcile

SpecReconcile == InitReconcile /\ [][NextReconcile]_vars

---------------------------------------------------------------------------
(* filterUpcoming on its own.  The Bot tracks some markets, some of them    *)
(* with their orders_placed flag set; the discovery hands over a list of    *)
(* markets, some of them closed or resolved, at a time in the neighbourhood *)
(* of the two bounds of the filter.  The origin of the time axis is free.   *)

FilterTimes ==
  {EndTS(c) + UpcomingPastEnd + d : c \in Markets, d \in {0 - 1, 0, 1}}
  \cup {StartTS(c) - UpcomingHorizon + d : c \in Markets, d \in {0 - 1, 0, 1}}
  \cup {TickStep}

InitFilter ==
  /\ \E T \in SUBSET Markets : \E P \in SUBSET T :
       bot = [EmptyBot EXCEPT !.trackedMarkets = T, !.ordersPlaced = P]
  /\ disk = [EmptyDisk EXCEPT !.markets = bot.trackedMarkets]
  /\ book = <<>>
  /\ burned = [c \in Markets |-> 0]
  /\ \E found \in SUBSET Markets : \E resolved \in SUBSET found :
       obs = [found |-> found, resolved |-> resolved, out |-> <<>>, before |-> bot]
  /\ pc = "idle"
  /\ now \in FilterTimes
  /\ ticks = 0
  /\ restarts = 0
  /\ orderMode = "test"
  /\ faults = 0
  /\ fills = 0

\* line 191 of RunOnce
Filter ==
  /\ pc = "idle"
  /\ pc' = "filtered"
  /\ \E w \in {filterUpcomingAmong(World, obs.found, obs.resolved, now)} :
        /\ bot' = w.bot
        /\ disk' = w.disk
  /\ obs' = [obs EXCEPT !.out = UpcomingAmong(obs.found, obs.resolved, now)]
  /\ UNCHANGED <<book, burned, now, ticks, restarts, orderMode, faults, fills>>

NextFilter == Filter

SpecFilter == InitFilter /\ [][NextFilter]_vars

---------------------------------------------------------------------------
(* The placement window.  A Bot that holds nothing runs the placing steps   *)
(* of one tick (discovery, the placement gate, the fallback) at a time that *)
(* lies some WindowOffsets before the start of a market.                    *)

WindowOffsets ==
  {PlacementMinMinutes * 60 + d : d \in {0 - 30, 0 - 1, 0, 1, 120}}
  \cup {PlacementMaxMinutes * 60 + d : d \in {0 - 1, 0, 1, 60}}

InitWindow ==
  /\ bot = [EmptyBot EXCEPT !.creds = TRUE]
  /\ disk = EmptyDisk
  /\ book = <<>>
  /\ burned = [c \in Markets |-> 0]
  /\ obs = EmptyObs
  /\ pc = "idle"
  /\ now \in {StartTS(c) - d : c \in Markets, d \in WindowOffsets}
  /\ ticks = 0
  /\ restarts = 0
  /\ orderMode \in {"test", "liquidity"}
  /\ faults = 0
  /\ fills = 0

\* lines 184-241 of RunOnce
GateStep ==
  /\ pc = "idle"
  /\ pc' = "gated"
  /\ \E found \in SUBSET Markets : \E usdc \in {"enough", "short"} :
     \E w \in {placementGate(filterUpcoming(World, found, now), UpcomingOf(found, now),
                              now, orderMode, [DefaultIn EXCEPT !.usdc = usdc])} :
        /\ bot' = w.bot
        /\ disk' = w.disk
        /\ book' = w.book
        /\ obs' = [w.obs EXCEPT !.found = found]
  /\ UNCHANGED <<burned, now, ticks, restarts, orderMode, faults, fills>>

\* lines 250-255 of RunOnce
FallbackStep ==
  /\ pc = "gated"
  /\ pc' = "placed"
  /\ \E w \in {placeFallbackIfIdle(World, UpcomingOf(obs.found, now), now, orderMode,
                                    DefaultIn)} :
        /\ bot' = w.bot
        /\ disk' = w.disk
        /\ book' = w.book
        /\ obs' = w.obs
  /\ UNCHANGED <<burned, now, ticks, restarts, orderMode, faults, fills>>

NextWindow ==
  \/ GateStep
  \/ FallbackStep

SpecWindow == InitWindow /\ [][NextWindow]_vars

---------------------------------------------------------------------------
(* Prices and the tick grid.  Prices of this section are in 1e-5 USD, so    *)
(* that every tick size of the exchange and prices between the points of    *)
(* its finest grid are integers.  The core computes the price of an order   *)
(* on one of its placement paths and hands it to CreateOrder, which         *)
(* validates it against the token's tick size and derives the signed        *)
(* amounts from the price rounded to the decimals of that tick.             *)

PriceUnit == 100000
RawStep == 2497
RawCount == 40

\* parseTick / parseTickSize: "0.1", "0.01", "0.001", "0.0001"
TickSizes == {PriceUnit \div 10, PriceUnit \div 100, PriceUnit \div 1000,
              PriceUnit \div 10000}

DefaultTick == PriceUnit \div 100

\* math.Round(x / unit) for x >= 0
RoundTo(x, unit) == (2 * x + unit) \div (2 * unit)

\* roundNormal(price, rc.price): the price at the decimals of the tick
roundNormal(price, tick) == RoundTo(price, tick) * tick

\* adjustPriceToTick with the tick as a parameter
adjustPriceToTickSize(price, tick) ==
  RoundTo(Max(tick, Min(PriceUnit - tick, price)), tick) * tick

priceValid(price, tick) == price >= tick /\ price <= PriceUnit - tick

\* the tick the core's own best-effort GetTickSize gives it
CoreTick(tick, reads) == IF reads = "ok" THEN tick ELSE DefaultTick

\* the price the core puts in OrderArgs and on the OrderRecord
CorePrice(path, raw, tick, reads) ==
  IF path = "simple_test" THEN TestPrice * (PriceUnit \div 100)
  ELSE adjustPriceToTickSize(raw, CoreTick(tick, reads))

\* CreateOrder: the tick size is read (from the cache when the core's read
\* succeeded), the price is validated and the amounts are built
CreateOrder(price, tick, reads) ==
  IF reads = "fail" THEN [ok |-> FALSE, price |-> 0]
  ELSE IF ~priceValid(price, tick) THEN [ok |-> FALSE, price |-> 0]
  ELSE [ok |-> TRUE, price |-> roundNormal(price, tick)]

RawPrices ==
  {k * RawStep : k \in 0 .. RawCount} \cup {5, PriceUnit - 5, PriceUnit \div 2}

InitTick ==
  /\ bot = EmptyBot
  /\ disk = EmptyDisk
  /\ book = <<>>
  /\ burned = [c \in Markets |-> 0]
  /\ \E path \in {"liquidity", "split", "simple_test", "sell"} :
     \E tick \in TickSizes :
     \E raw \in IF path = "simple_test" THEN {TestPrice * (PriceUnit \div 100)}
                ELSE RawPrices :
     \E reads \in {"ok", "fail_then_ok", "fail"} :
        /\ path = "simple_test" => reads # "fail_then_ok"
        /\ obs = [ path |-> path, tick |-> tick, raw |-> raw, reads |-> reads,
                   recorded |-> 0, sent |-> [ok |-> FALSE, price |-> 0] ]
  /\ pc = "idle"
  /\ now = TickStep
  /\ ticks = 0
  /\ restarts = 0
  /\ orderMode = "test"
  /\ faults = 0
  /\ fills = 0

\* one order of a placement path: the price, then CreateOrder
SubmitOrder ==
  /\ pc = "idle"
  /\ pc' = "submitted"
  /\ \E p \in {CorePrice(obs.path, obs.raw, obs.tick, obs.reads)} :
       obs' = [obs EXCEPT !.recorded = p,
                          !.sent = CreateOrder(p, obs.tick, obs.reads)]
  /\ UNCHANGED <<bot, disk, book, burned, now, ticks, restarts, orderMode, faults,
                 fills>>

NextTick == SubmitOrder

SpecTick == InitTick /\ [][NextTick]_vars

---------------------------------------------------------------------------
(* The fallback placement.  A Bot that holds the group of market 1, or      *)
(* nothing, runs one tick in one of the three order modes: steps 1 to 3.5   *)
(* (discovery, the placement gate, reconciliation, the strategy exit), then *)
(* step 3.6.  The exchange may fill orders before the tick.                 *)

FallbackModes == {"test", "liquidity", "split"}

FallbackTimes ==
  {StartTS(c) - d * 60 : c \in Markets,
                         d \in {PlacementMinMinutes, PlacementMaxMinutes}}

\* the Bot after it placed the group of the markets in S in the given mode
HeldWorld(S, mode) ==
  LET w0 == [FreshWorld EXCEPT !.bot.creds = TRUE]
      step[k \in 0 .. NumMarkets] ==
        IF k = 0 THEN w0
        ELSE IF k \notin S THEN step[k - 1]
        ELSE register(placeForMode(filterUpcoming(step[k - 1], {k},
                                                  StartTS(k) - TickStep),
                                   k, StartTS(k) - TickStep, mode, DefaultIn), k)
  IN  step[NumMarkets]

InitFallback ==
  /\ orderMode \in FallbackModes
  /\ \E S \in SUBSET {1} :
     \E w \in {HeldWorld(S, orderMode)} :
        /\ bot = w.bot
        /\ disk = w.disk
        /\ book = w.book
        /\ obs = [w.obs EXCEPT !.placements = [c \in Markets |-> 0]]
  /\ burned = [c \in Markets |-> 0]
  /\ pc = "idle"
  /\ now = StartTS(1) - TickStep
  /\ ticks = 0
  /\ restarts = 0
  /\ faults = 0
  /\ fills = 0

\* time passes
FallbackWait ==
  /\ pc = "idle"
  /\ \E t \in FallbackTimes : t > now /\ now' = t
  /\ UNCHANGED <<bot, disk, book, burned, pc, ticks, restarts, orderMode, faults,
                 fills, obs>>

\* lines 184-247 of RunOnce
TickHead ==
  /\ pc = "idle"
  /\ pc' = "gated"
  /\ \E found \in SUBSET Markets : \E usdc \in {"enough", "short"} :
     \E w \in {checkStrategyExecution(
                 checkActiveOrders(
                   placementGate(filterUpcoming(World, found, now),
                                 UpcomingOf(found, now), now, orderMode,
                                 [DefaultIn EXCEPT !.usdc = usdc]),
                   now, DefaultIn),
                 now, DefaultIn)} :
        /\ ~w.panic
        /\ bot' = w.bot
        /\ disk' = w.disk
        /\ book' = w.book
        /\ burned' = w.burned
        /\ obs' = [w.obs EXCEPT !.found = found]
  /\ UNCHANGED <<now, ticks, restarts, orderMode, faults, fills>>

NextFallback ==
  \/ FallbackWait
  \/ ExchangeFill
  \/ TickHead
  \/ FallbackStep

SpecFallback == InitFallback /\ [][NextFallback]_vars

---------------------------------------------------------------------------
(* Market parsing (logging.go).  A decoded JSON object is a record of the   *)
(* keys parseMarket reads; a key that is absent and a key whose value is    *)
(* null both read as nil from a Go map, so both are JNil here.  Strings are *)
(* strings; the slug suffix and the iso dates are parsed by the tables of   *)
(* the quarter hours of the model.                                          *)

JNil == [kind |-> "nil", s |-> ""]
JStr(s) == [kind |-> "string", s |-> s]

\* asString: a string as it is, anything else through fmt.Sprintf("%v", v)
asString(v) == IF v.kind = "string" THEN v.s ELSE "<nil>"

SlugPrefix == "btc-updown-15m-"
SlugText(c) == SlugPrefix \o ToString(StartTS(c))

\* the RFC3339 text of the quarter hours of the model
IsoText(ts) ==
  CASE ts = 2 * MarketSeconds -> "1970-01-01T00:30:00Z"
    [] ts = 3 * MarketSeconds -> "1970-01-01T00:45:00Z"
    [] ts = 4 * MarketSeconds -> "1970-01-01T01:00:00Z"
    [] OTHER -> "1970-01-01T01:15:00Z"

IsoTimes == {k * MarketSeconds : k \in 2 .. 5}

\* parseISO: 0 for the empty string and for a text that is no date
parseISO(s) ==
  IF s = "" THEN 0
  ELSE IF \E ts \in IsoTimes : IsoText(ts) = s
  THEN CHOOSE ts \in IsoTimes : IsoText(ts) = s
  ELSE 0

\* extractStartEnd: the digits after the family prefix, else the iso fields
extractStartEnd(slug, actual, event) ==
  IF \E c \in Markets : slug = SlugText(c)
  THEN LET c == CHOOSE d \in Markets : slug = SlugText(d)
       IN  [start |-> StartTS(c), end |-> StartTS(c) + 15 * 60]
  ELSE IF slug = SlugPrefix
  THEN [start |-> 0, end |-> 15 * 60]
  ELSE [ start |-> IF parseISO(asString(actual.startDate)) = 0
                   THEN parseISO(asString(event.start_date))
                   ELSE parseISO(asString(actual.startDate)),
         end |-> IF parseISO(asString(actual.endDate)) = 0
                 THEN parseISO(asString(event.end_date))
                 ELSE parseISO(asString(actual.endDate)) ]

OrElse(a, b) == IF a = "" THEN b ELSE a

NoMarket ==
  [condition_id |-> "", market_slug |-> "", question |-> "", start_ts |-> 0,
   end_ts |-> 0]

\* the end of parseMarket
marketFrom(conditionID, marketSlug, question, se) ==
  IF conditionID = "" \/ marketSlug = "" \/ question = "" THEN [ok |-> FALSE, m |-> NoMarket]
  ELSE IF se.start = 0 \/ se.end = 0 THEN [ok |-> FALSE, m |-> NoMarket]
  ELSE [ ok |-> TRUE,
         m |-> [condition_id |-> conditionID, market_slug |-> marketSlug,
                question |-> question, start_ts |-> se.start, end_ts |-> se.end] ]

\* parseMarket: first is <<>> when the response has no markets array, else
\* the one-element sequence of its first entry
parseMarket(event, first) ==
  IF first # <<>>
  THEN marketFrom(asString(first[1].conditionId), asString(event.slug),
                  OrElse(asString(first[1].question), asString(event.title)),
                  extractStartEnd(asString(event.slug), first[1], event))
  ELSE marketFrom(OrElse(asString(event.conditionId), asString(event.condition_id)),
                  OrElse(asString(event.slug), asString(event.market_slug)),
                  OrElse(asString(event.question), asString(event.title)),
                  extractStartEnd(OrElse(asString(event.slug),
                                         asString(event.market_slug)), event, event))

\* the values the upstream gives a key: absent or null, empty, present
Upstream(S) == {JNil, JStr("")} \cup {JStr(s) : s \in S}

EmptyObject ==
  [ conditionId |-> JNil, condition_id |-> JNil, slug |-> JNil, market_slug |-> JNil,
    question |-> JNil, title |-> JNil, startDate |-> JNil, endDate |-> JNil,
    start_date |-> JNil, end_date |-> JNil ]

\* an event of the metadata API with its markets array
EventResponses ==
  { [ event |-> [EmptyObject EXCEPT !.slug = sl, !.title = ti],
      first |-> << [EmptyObject EXCEPT !.conditionId = ci, !.question = qu,
                                       !.startDate = sd, !.endDate = ed] >> ] :
      sl \in Upstream({SlugText(1), "other"}), ti \in {JNil, JStr("Title")},
      ci \in Upstream({"0xc1"}), qu \in Upstream({"Up or down?"}),
      sd \in {JNil, JStr(IsoText(StartTS(1)))}, ed \in {JNil, JStr(IsoText(EndTS(1)))} }

\* a response that is a market itself
FlatResponses ==
  { [ event |-> [EmptyObject EXCEPT !.conditionId = ci, !.condition_id = cj,
                                    !.slug = sl, !.market_slug = sm,
                                    !.question = qu, !.title = ti,
                                    !.startDate = d.s, !.endDate = d.e],
      first |-> <<>> ] :
      ci \in Upstream({"0xc1"}), cj \in {JNil, JStr("0xc1")},
      sl \in Upstream({SlugText(1), SlugPrefix}), sm \in {JNil, JStr("other")},
      qu \in Upstream({"Up or down?"}), ti \in {JNil, JStr("Title")},
      d \in { [s |-> JNil, e |-> JNil],
               [s |-> JStr(IsoText(StartTS(1))), e |-> JStr(IsoText(EndTS(1)))] } }

InitParse ==
  /\ bot = [EmptyBot EXCEPT !.trackedMarkets = {}]
  /\ disk = EmptyDisk
  /\ book = <<>>
  /\ burned = [c \in Markets |-> 0]
  /\ obs \in {[response |-> r, parsed |-> [ok |-> FALSE, m |-> NoMarket]] :
                r \in EventResponses \cup FlatResponses}
  /\ pc = "fetched"
  /\ now = MarketSeconds
  /\ ticks = 0
  /\ restarts = 0
  /\ orderMode = "test"
  /\ faults = 0
  /\ fills = 0

\* DiscoverBTC15mMarkets: the response of one slug is parsed
Parse ==
  /\ pc = "fetched"
  /\ pc' = "parsed"
  /\ obs' = [obs EXCEPT !.parsed = parseMarket(obs.response.event, obs.response.first)]
  /\ UNCHANGED <<bot, disk, book, burned, now, ticks, restarts, orderMode, faults,
                 fills>>

\* filterUpcoming: a parsed market inside the time bounds is tracked
Track ==
  /\ pc = "parsed"
  /\ pc' = "tracked"
  /\ bot' = IF /\ obs.parsed.ok
               /\ obs.parsed.m.end_ts - now > 0 - UpcomingPastEnd
               /\ obs.parsed.m.start_ts - now <= UpcomingHorizon
            THEN [bot EXCEPT !.trackedMarkets = @ \cup {obs.parsed.m}]
            ELSE bot
  /\ UNCHANGED <<disk, book, burned, now, ticks, restarts, orderMode, faults, fills,
                 obs>>

NextParse ==
  \/ Parse
  \/ Track

SpecParse == InitParse /\ [][NextParse]_vars

---------------------------------------------------------------------------
(* Verification after submission.  performSplit and placeLiquidityOrders    *)
(* submit their orders one by one, sleeping 500 ms after each, and then     *)
(* list the open orders of the market; the exchange matches orders while    *)
(* they do.  pc holds the position in the placement and the orders as they  *)
(* were submitted.                                                          *)

VerifyModes == {"split", "liquidity"}

InitVerify ==
  /\ bot = [EmptyBot EXCEPT !.creds = TRUE]
  /\ disk = EmptyDisk
  /\ book = <<>>
  /\ burned = [c \in Markets |-> 0]
  /\ obs = EmptyObs
  /\ pc = [at |-> "idle", cid |-> 0, orders |-> <<>>]
  /\ now \in {StartTS(c) - PlacementMaxMinutes * 60 : c \in Markets}
  /\ ticks = 0
  /\ restarts = 0
  /\ orderMode \in VerifyModes
  /\ faults = 0
  /\ fills = 0

\* the submissions of one placement
VerifySubmit ==
  /\ pc.at = "idle"
  /\ \E c \in {d \in Markets : shouldPlaceOrders(d, now)} :
     \E post \in {<<"ok", "ok">>, <<"ok", "rejected">>, <<"lost", "ok">>} :
     \E pl \in {placeForMode(filterUpcoming(World, {c}, now), c, now, orderMode,
                              [DefaultIn EXCEPT !.post = post])} :
        /\ bot' = pl.w.bot
        /\ disk' = pl.w.disk
        /\ book' = pl.w.book
        /\ pc' = [at |-> "submitted", cid |-> c, orders |-> pl.sent]
  /\ UNCHANGED <<burned, now, ticks, restarts, orderMode, faults, fills, obs>>

\* the exchange matches a resting order, wholly or by half
VerifyMatch ==
  /\ pc.at \in {"submitted", "registered"}
  /\ fills < MaxFills
  /\ fills' = fills + 1
  /\ \E n \in 1 .. Len(book) : \E all \in BOOLEAN :
       LET e == book[n]
           left == e.original_size - e.size_matched
           amt == IF all THEN left ELSE left \div 2
       IN  /\ e.status = "LIVE"
           /\ e.side = "BUY"
           /\ amt > 0
           /\ book' = [book EXCEPT ![n].size_matched = @ + amt,
                                   ![n].status = IF amt = left THEN "MATCHED" ELSE @]
  /\ UNCHANGED <<bot, disk, burned, pc, now, ticks, restarts, orderMode, faults, obs>>

\* verifyOrdersInOrderbook, then lines 232-240 of RunOnce
VerifyRegister ==
  /\ pc.at = "submitted"
  /\ pc' = [pc EXCEPT !.at = "registered", !.orders = <<>>]
  /\ \E listOk \in BOOLEAN :
     \E w \in {IF pc.orders = <<>> THEN World
                ELSE RegisterPlacement(World, pc.cid,
                       verifyOrdersInOrderbook(World, MarketOf(pc.cid), pc.orders,
                                               [DefaultIn EXCEPT !.listOk = listOk]))} :
        /\ bot' = w.bot
        /\ disk' = w.disk
        /\ obs' = w.obs
  /\ UNCHANGED <<book, burned, now, ticks, restarts, orderMode, faults, fills>>

\* step 3 of a later tick
VerifySweep ==
  /\ pc.at = "registered"
  /\ ticks < MaxTicks
  /\ ticks' = ticks + 1
  /\ now' = now + 60
  /\ \E w \in {checkActiveOrders(World, now + 60, DefaultIn)} :
        /\ ~w.panic
        /\ bot' = w.bot
        /\ disk' = w.disk
        /\ book' = w.book
        /\ burned' = w.burned
        /\ obs' = w.obs
  /\ UNCHANGED <<pc, restarts, orderMode, faults, fills>>

NextVerify ==
  \/ VerifySubmit
  \/ VerifyMatch
  \/ VerifyRegister
  \/ VerifySweep

SpecVerify == InitVerify /\ [][NextVerify]_vars

---------------------------------------------------------------------------
(* The tick loop running for ever.  Every call of the outside world         *)
(* succeeds; ticks are TickStep apart until the last market of the model    *)
(* has ended, one tick comes after the 24 h of housekeeping, and from then  *)
(* on ticks find nothing that depends on the time, so the clock is held.    *)
(* ticks is the parity of the number of ticks run.  runBotLoop runs RunOnce *)
(* on every firing of its ticker: the tick is weakly fair.                  *)

LiveEnd == EndTS(NumMarkets) + TickStep

NextTickTime(t) ==
  IF t < LiveEnd THEN t + TickStep
  ELSE IF t < LongStep THEN t + LongStep
  ELSE t

InitLive ==
  /\ bot = [EmptyBot EXCEPT !.creds = TRUE]
  /\ disk = EmptyDisk
  /\ book = <<>>
  /\ burned = [c \in Markets |-> 0]
  /\ pc = "idle"
  /\ now = 0
  /\ ticks = 0
  /\ restarts = 0
  /\ orderMode \in {"test", "liquidity"}
  /\ faults = 0
  /\ fills = 0
  /\ obs = EmptyObs

\* Bot.RunOnce with every call succeeding
LiveTick ==
  /\ pc = "idle"
  /\ now' = NextTickTime(now)
  /\ \E t \in {NextTickTime(now)} :
     \E w1 \in {filterUpcoming([World EXCEPT !.obs = EmptyObs], Candidates(t), t)} :
     \E w2 \in {placementGate(w1, UpcomingOf(Candidates(t), t), t, orderMode,
                               DefaultIn)} :
     \E w3 \in {checkActiveOrders(w2, t, DefaultIn)} :
     \E w4 \in {Unless(w3, checkStrategyExecution(w3, t, DefaultIn))} :
     \E w5 \in {Unless(w4, updateOrderLists(
                              cleanupOldMarkets(
                                placeFallbackIfIdle(w4, UpcomingOf(Candidates(t), t), t,
                                                    orderMode, DefaultIn),
                                t, DefaultIn), t))} :
        /\ ~w5.panic
        /\ bot' = w5.bot
        /\ disk' = w5.disk
        /\ book' = w5.book
        /\ burned' = w5.burned
        /\ obs' = EmptyObs
  /\ ticks' = 1 - ticks
  /\ UNCHANGED <<pc, restarts, orderMode, faults, fills>>

\* the ticker of runBotLoop fires: the steps that change ticks are the
\* LiveTick steps, and LiveTick is enabled in every state
TickerFires == pc = "idle" /\ ticks' = 1 - ticks

NextLive ==
  \/ LiveTick
  \/ ExchangeFill

SpecLive == InitLive /\ [][NextLive]_vars /\ WF_ticks(TickerFires)

---------------------------------------------------------------------------
(* Redemption sweeps (redeem.go).  book holds the chain's view of the       *)
(* wallet's position in each condition: "none", "held" (resolved and        *)
(* redeemable), "pending" (a redeem transaction is sent and not mined) or   *)
(* "done" (redeemed).  The positions listing reports a condition as         *)
(* redeemable while it is held or pending.  bot holds lastRedemptionCheck   *)
(* and the order history, obs the times of the sweeps.                      *)

RedeemCheckInterval == 60

RedeemSteps == {RedeemCheckInterval \div 2, RedeemCheckInterval}

PositionValue(c) == 10 * c

RedeemId(c, t) == [kind |-> "REDEEM", n |-> c, t |-> t]

\* the REDEEM record of checkAndRedeemAll
redeemRecord(c, t) ==
  [ OrderRecord(RedeemId(c, t), Slug(c), c, NoToken, "REDEEM", "SELL", 100,
                PositionValue(c), PositionValue(c), "FILLED", t, "REDEEM")
    EXCEPT !.filled_at = Ptr(t), !.revenue_usd = Ptr(PositionValue(c)),
           !.cost_usd = Ptr(0), !.pnl_usd = Ptr(PositionValue(c)) ]

\* shouldCheckRedemptions
shouldCheckRedemptions(b, t) ==
  IF ~IsSet(b.lastRedemptionCheck) THEN TRUE
  ELSE t - Deref(b.lastRedemptionCheck) >= RedeemCheckInterval

Redeemable(chain) == {c \in Markets : chain[c] \in {"held", "pending"}}

\* checkAndRedeemAll: tx[c] is what RedeemPositions does for c: "error", or
\* the transaction hash is returned with the transaction "mined" or "unmined"
\* (transact returns the hash also when WaitMined fails)
checkAndRedeemAll(b, chain, t, listOk, tx) ==
  IF ~listOk THEN [bot |-> b, chain |-> chain]
  ELSE
    LET sent == {c \in Redeemable(chain) : tx[c] # "error"}
    IN  [ bot |-> [b EXCEPT !.orderHistory = @ \cup {redeemRecord(c, t) : c \in sent}],
          chain |-> [c \in Markets |->
                       IF c \notin sent THEN chain[c]
                       ELSE IF tx[c] = "mined" THEN "done"
                       ELSE IF chain[c] = "held" THEN "pending" ELSE chain[c]] ]

InitRedeem ==
  /\ bot = [lastRedemptionCheck |-> Nil, orderHistory |-> {}]
  /\ disk = EmptyDisk
  /\ book = [c \in Markets |-> "none"]
  /\ burned = [c \in Markets |-> 0]
  /\ obs = <<>>
  /\ pc = "idle"
  /\ now = 0
  /\ ticks = 0
  /\ restarts = 0
  /\ orderMode = "test"
  /\ faults = 0
  /\ fills = 0

\* a market is resolved while the wallet holds a position in it
Resolve ==
  /\ \E c \in Markets : book[c] = "none" /\ book' = [book EXCEPT ![c] = "held"]
  /\ UNCHANGED <<bot, disk, burned, pc, now, ticks, restarts, orderMode, faults, fills,
                 obs>>

\* the chain mines a redeem transaction
Mine ==
  /\ \E c \in Markets : book[c] = "pending" /\ book' = [book EXCEPT ![c] = "done"]
  /\ UNCHANGED <<bot, disk, burned, pc, now, ticks, restarts, orderMode, faults, fills,
                 obs>>

\* step 0 of RunOnce
RedeemTick ==
  /\ ticks < 2 * MaxTicks
  /\ ticks' = ticks + 1
  /\ \E step \in RedeemSteps : \E listOk \in BOOLEAN :
     \E tx \in [Markets -> {"mined", "unmined", "error"}] :
       /\ now' = now + step
       /\ IF shouldCheckRedemptions(bot, now + step)
          THEN \E r \in {checkAndRedeemAll(bot, book, now + step, listOk, tx)} :
                 /\ bot' = [r.bot EXCEPT !.lastRedemptionCheck = Ptr(now + step)]
                 /\ book' = r.chain
                 /\ obs' = Append(obs, now + step)
          ELSE UNCHANGED <<bot, book, obs>>
  /\ UNCHANGED <<disk, burned, pc, restarts, orderMode, faults, fills>>

NextRedeem ==
  \/ Resolve
  \/ Mine
  \/ RedeemTick

SpecRedeem == InitRedeem /\ [][NextRedeem]_vars

---------------------------------------------------------------------------
(* Merge progress.  The Bot of the periodic merge (two test orders of one   *)
(* market, each unmatched or half matched) under the tick loop that runs    *)
(* for ever with every call succeeding.                                     *)

SpecPairs == InitMerge /\ [][NextLive]_vars /\ WF_ticks(TickerFires)

---------------------------------------------------------------------------
(* Placement after a restart.  Before the Bot starts the command line may   *)
(* have placed test orders.  Ticks WindowStep apart run from before the      *)
(* placement window of the first market up to its start, every call         *)
(* succeeding; between two ticks the exchange matches orders and the         *)
(* process is stopped and started again, loading the three files.            *)

WindowStep == 300

InitAgain ==
  /\ bot = EmptyBot
  /\ disk = EmptyDisk
  /\ book = <<>>
  /\ burned = [c \in Markets |-> 0]
  /\ pc = "boot"
  /\ now = StartTS(1) - PlacementMaxMinutes * 60 - WindowStep
  /\ ticks = 0
  /\ restarts = 0
  /\ orderMode \in {"test", "liquidity"}
  /\ faults = 0
  /\ fills = 0
  /\ obs = EmptyObs

\* what the observer keeps from tick to tick
Kept(o) == [EmptyObs EXCEPT !.placements = o.placements, !.replaced = o.replaced]

\* Bot.RunOnce with every call succeeding
AgainTick ==
  /\ pc = "idle"
  /\ now + WindowStep <= StartTS(1)
  /\ now' = now + WindowStep
  /\ \E t \in {now + WindowStep} :
     \E w1 \in {filterUpcoming([World EXCEPT !.obs = Kept(obs)], Candidates(t), t)} :
     \E w2 \in {placementGate(w1, UpcomingOf(Candidates(t), t), t, orderMode,
                               DefaultIn)} :
     \E w3 \in {checkActiveOrders(w2, t, DefaultIn)} :
     \E w4 \in {Unless(w3, checkStrategyExecution(w3, t, DefaultIn))} :
     \E w5 \in {Unless(w4, updateOrderLists(
                              cleanupOldMarkets(
                                placeFallbackIfIdle(w4, UpcomingOf(Candidates(t), t), t,
                                                    orderMode, DefaultIn),
                                t, DefaultIn), t))} :
        /\ ~w5.panic
        /\ bot' = w5.bot
        /\ disk' = w5.disk
        /\ book' = w5.book
        /\ burned' = w5.burned
        /\ obs' = Kept(w5.obs)
  /\ UNCHANGED <<pc, ticks, restarts, orderMode, faults, fills>>

\* Bot.Start with every call succeeding
AgainStart ==
  /\ pc = "boot"
  /\ pc' = "idle"
  /\ \E w1 \in {loadOrders(loadOrderHistory(loadMarkets(World)), DefaultIn.ord)} :
     \E w2 \in {recoverExistingOrders(SetCreds(w1, DefaultIn), now, DefaultIn)} :
        /\ ~w2.panic
        /\ bot' = w2.bot
        /\ disk' = w2.disk
        /\ book' = w2.book
        /\ burned' = w2.burned
        /\ obs' = Kept(w2.obs)
  /\ UNCHANGED <<now, ticks, restarts, orderMode, faults, fills>>

\* the process is stopped
AgainRestart ==
  /\ pc = "idle"
  /\ restarts < MaxRestarts
  /\ restarts' = restarts + 1
  /\ pc' = "boot"
  /\ bot' = EmptyBot
  /\ obs' = [obs EXCEPT !.placements = [c \in Markets |-> 0]]
  /\ UNCHANGED <<disk, book, burned, now, ticks, orderMode, faults, fills>>

NextAgain ==
  \/ CliPlaceTest
  \/ AgainStart
  \/ AgainTick
  \/ AgainRestart
  \/ ExchangeFill

SpecAgain == InitAgain /\ [][NextAgain]_vars

---------------------------------------------------------------------------
(* The price of a liquidation SELL (sellPositionMarket).  Prices are in     *)
(* units of 1e-5 USD.  One SELL of a token whose market has one of the four *)
(* tick sizes, under a configuration (MIN_SELL_PRICE, MARKET_SELL_DISCOUNT) *)
(* and a best bid on the market's grid, or no bid at all.                    *)

BidCount == 12

Cents(c) == c * (PriceUnit \div 100)

\* the default of MIN_SELL_PRICE, and values an operator may set
MinSellPrices == {Cents(MinSellPrice), Cents(12), Cents(10) + 400, Cents(99) + 500}

\* the default of MARKET_SELL_DISCOUNT, and values an operator may set
SellDiscounts == {0, Cents(MarketSellDiscount), Cents(5)}

BestBids(tick) == {n * tick : n \in {k \in 0 .. BidCount : k * tick < PriceUnit}}

\* lines 106-108: no bid, or a bid under the minimum
sellRefused(bestBid, minSell) == bestBid <= 0 \/ bestBid < minSell

\* lines 109-120: the discounted bid, floored at the minimum, on the tick
sellPrice(bestBid, minSell, discount, tick, reads) ==
  adjustPriceToTickSize(Max(bestBid - discount, minSell), CoreTick(tick, reads))

InitSell ==
  /\ bot = EmptyBot
  /\ disk = EmptyDisk
  /\ book = <<>>
  /\ burned = [c \in Markets |-> 0]
  /\ \E tick \in TickSizes : \E bid \in BestBids(tick) :
     \E minSell \in MinSellPrices : \E discount \in SellDiscounts :
     \E reads \in {"ok", "fail_then_ok", "fail"} :
        obs = [ tick |-> tick, bid |-> bid, minSell |-> minSell,
                discount |-> discount, reads |-> reads, price |-> 0,
                sent |-> [ok |-> FALSE, price |-> 0] ]
  /\ pc = "idle"
  /\ now = TickStep
  /\ ticks = 0
  /\ restarts = 0
  /\ orderMode = "test"
  /\ faults = 0
  /\ fills = 0

\* sellPositionMarket up to CreateOrder
SellSubmit ==
  /\ pc = "idle"
  /\ pc' = IF sellRefused(obs.bid, obs.minSell) THEN "refused" ELSE "submitted"
  /\ \E p \in {sellPrice(obs.bid, obs.minSell, obs.discount, obs.tick, obs.reads)} :
       obs' = IF sellRefused(obs.bid, obs.minSell) THEN obs
              ELSE [obs EXCEPT !.price = p,
                               !.sent = CreateOrder(p, obs.tick, obs.reads)]
  /\ UNCHANGED <<bot, disk, book, burned, now, ticks, restarts, orderMode, faults,
                 fills>>

NextSell == SellSubmit

SpecSell == InitSell /\ [][NextSell]_vars

---------------------------------------------------------------------------
(* Properties *)

Opened == {"PENDING", "PLACED", "PARTIALLY_FILLED"}

\* C1: terminal statuses never regress. Once a record of an order id (in the
\* history or in a group) has had status FILLED, CANCELLED or FAILED, no record
\* of that order id has status PENDING, PLACED or PARTIALLY_FILLED afterwards,
\* whatever sequence of load, recovery, placement, reconciliation, exit and
\* housekeeping follows.
C1_TerminalNeverRegresses ==
  \A r \in KnownRecords(bot) : r.order_id \in obs.terminal => r.status \notin Opened
\* a counterexample of C1 needs an order that the Bot cancelled locally and
\* that came back from the exchange's listing
C1_Regressed ==
  \E r \in AllGroupRecords(bot) :
     r.order_id \in obs.terminal /\ r.status = "PLACED" /\ restarts = 2

C3_FlagKeptForGroup ==
  [][\A c \in Markets :
       (bot.activeOrders[c] # <<>> /\ c \in bot.ordersPlaced /\ bot'.activeOrders[c] # <<>>)
         => c \in bot'.ordersPlaced]_vars

\* C4: a strategy placement starts only when no group holds a PLACED or
\* PARTIALLY_FILLED order and no unsold group with a filled order has a wallet
\* balance, read successfully, above 0.01 for an outcome token.
C4_PlacementOnlyWhenIdle == \A s \in obs.snaps : ~s.live /\ ~s.dust

\* a placement started while a group with a filled order existed
C4_Witness == \E s \in obs.snaps : s.filled

\* C5: at every tick boundary each known record with status PLACED or
\* PARTIALLY_FILLED is a member of exactly one active-orders group.
C5_LiveInOneGroup ==
  \A r \in KnownRecords(bot) :
     r.status \in Live =>
       Cardinality({c \in Markets :
                      \E i \in 1 .. Len(bot.activeOrders[c]) :
                         bot.activeOrders[c][i].order_id = r.order_id}) = 1

\* a SELL order of sellPositionMarket is open and in no group
C5_SellOutsideGroups ==
  /\ pc = "idle"
  /\ \E r \in bot.orderHistory :
        r.side = "SELL" /\ r.status \in Live /\ r \notin AllGroupRecords(bot)

\* an absent size_matched and a size_matched of 0 are taken for the same
Matched(r) == IF IsSet(r.size_matched) THEN Deref(r.size_matched) ELSE 0

SameOnDisk(o, m) ==
  m.order_id = o.order_id /\ m.status = o.status /\ Matched(m) = Matched(o)

\* C6: after every tick the active-orders file holds the groups of the
\* in-memory map, each with the same records, statuses and size_matched.
C6_FileEqualsMemory ==
  pc = "idle" =>
    \A c \in Markets :
       /\ Len(disk.orders[c]) = Len(bot.activeOrders[c])
       /\ \A i \in 1 .. Len(bot.activeOrders[c]) :
             i <= Len(disk.orders[c]) => SameOnDisk(bot.activeOrders[c][i], disk.orders[c][i])

\* housekeeping dropped a group that the orders file still holds
C6_GroupLeftOnDisk ==
  /\ pc = "idle"
  /\ \E c \in Markets :
        bot.activeOrders[c] = <<>> /\ disk.orders[c] # <<>> /\ c \notin bot.trackedMarkets

\* C7: after startup and after every tick, every PLACED or PARTIALLY_FILLED
\* order of a group has a history entry under its id with the same status and
\* size_matched.
C7_LiveGroupOrderInHistory ==
  pc \in {"started", "idle"} =>
    \A c \in Markets : \A i \in 1 .. Len(bot.activeOrders[c]) :
       LET o == bot.activeOrders[c][i]
       IN  o.status \in Live =>
             \E h \in bot.orderHistory :
                h.order_id = o.order_id /\ h.status = o.status
                /\ h.size_matched = o.size_matched

\* a recovered order that is partly filled sits in a group
C7_Witness ==
  /\ pc = "started"
  /\ \E o \in AllGroupRecords(bot) :
        o.status \in Live /\ o.market_slug.prefix = "recovered-"
        /\ IsSet(o.size_matched) /\ Deref(o.size_matched) > 0

\* C8: for every order record, size_matched (when set) is at most size.
C8_MatchedAtMostSize ==
  \A r \in KnownRecords(bot) : IsSet(r.size_matched) => Deref(r.size_matched) <= r.size

\* a recovered order holds more matched shares than its size
C8_RecoveredOverfilled ==
  /\ pc = "started"
  /\ \E r \in AllGroupRecords(bot) :
        r.market_slug.prefix = "recovered-" /\ IsSet(r.size_matched)
        /\ Deref(r.size_matched) > r.size

\* C9: for every order record, FILLED implies size_matched = size and
\* PARTIALLY_FILLED implies 0 < size_matched < size; synthetic MERGE records
\* included.
C9_StatusAgreesWithFill ==
  \A r \in KnownRecords(bot) :
     /\ r.status = "FILLED" => r.size_matched = Ptr(r.size)
     /\ r.status = "PARTIALLY_FILLED" =>
          IsSet(r.size_matched) /\ 0 < Deref(r.size_matched)
          /\ Deref(r.size_matched) < r.size

\* a MERGE record of a discovered market: FILLED, with no size_matched
C9_MergeRecord ==
  \E r \in bot.orderHistory :
     /\ r.transaction_type = "MERGE" /\ r.status = "FILLED" /\ ~IsSet(r.size_matched)
     /\ \A o \in AllGroupRecords(bot) : o.market_slug.prefix # "recovered-"

\* C10: persisting active_orders and order_history and then reloading them
\* yields records that agree with the originals on every field, cost_usd,
\* revenue_usd and pnl_usd included, so total_pnl is the same before the save
\* and after the load.
C10_RoundTrip ==
  pc = "loaded" =>
    /\ bot.activeOrders = obs.original.activeOrders
    /\ bot.orderHistory = obs.original.orderHistory
    /\ SumPNL(bot.orderHistory) = SumPNL(obs.original.orderHistory)

\* the reloaded history sums to another total_pnl than the saved one
C10_PnlLost ==
  pc = "loaded" /\ SumPNL(bot.orderHistory) # SumPNL(obs.original.orderHistory)

---------------------------------------------------------------------------
(* Placement batches *)

\* the exchange lists the order under the id the record carries
Listed(b, o) == o.order_id.kind = "ORD" /\ o.order_id.n \in b.open

Zeroed(o) ==
  /\ o.size = 0 /\ o.size_usd = 0
  /\ o.cost_usd = Ptr(0) /\ o.revenue_usd = Ptr(0) /\ o.pnl_usd = Ptr(0)

\* the orders of the batch are stored as the verification leaves them
StoredAsVerified(b) ==
  /\ Len(b.stored) = Len(b.sent)
  /\ \A i \in 1 .. Len(b.sent) :
       IF Listed(b, b.sent[i])
       THEN b.stored[i].status = "PLACED" /\ b.stored[i].error_message = Nil
       ELSE /\ b.stored[i].status = "FAILED"
            /\ Zeroed(b.stored[i])
            /\ IsSet(b.stored[i].error_message)
            /\ Deref(b.stored[i].error_message) # ""
            /\ IsSet(b.sent[i].error_message)
                 => b.stored[i].error_message = b.sent[i].error_message

C12_EveryPathVerifies ==
  \A b \in obs.batches : (b.listed /\ ~b.err) => StoredAsVerified(b)

\* a test-mode batch stores an order the exchange does not list, amount and all
C12_UnverifiedStored ==
  \E b \in obs.batches :
    /\ b.mode = "test" /\ b.listed /\ ~b.err
    /\ \E i \in 1 .. Len(b.stored) :
         /\ ~Listed(b, b.sent[i])
         /\ b.stored[i].size_usd > 0
         /\ \E o \in bot.orderHistory : o = b.stored[i]

---------------------------------------------------------------------------
(* Accounting *)

\* a nil amount adds nothing to a sum
NoAmount(p) == ~IsSet(p) \/ Deref(p) = 0

\* C13: a FAILED record of order_history carries pnl_usd, cost_usd and
\* revenue_usd of 0, whatever the order mode, so that it adds nothing to total_pnl
C13_FailedCarriesNoAmounts ==
  \A o \in bot.orderHistory :
    o.status = "FAILED" =>
      NoAmount(o.pnl_usd) /\ NoAmount(o.cost_usd) /\ NoAmount(o.revenue_usd)

\* the history holds a FAILED record that lowers total_pnl
C13_PhantomLoss ==
  \E o \in bot.orderHistory :
    /\ o.status = "FAILED" /\ IsSet(o.pnl_usd) /\ Deref(o.pnl_usd) < 0
    /\ SumPNL(bot.orderHistory) # SumPNL(bot.orderHistory \ {o})

---------------------------------------------------------------------------
(* Collateral precheck *)

\* C14: a placement whose precheck reads a balance below the requirement, 0
\* and an unreadable balance included, fails as a whole: no order reaches the
\* exchange and no order record is built
C14_PrecheckAborts ==
  \A b \in obs.batches :
    b.usdc # "enough" => b.err /\ b.sent = <<>> /\ b.stored = <<>> /\ b.added = {}

\* orders went out and were stored although the balance read had failed
C14_PlacedOnUnreadBalance ==
  \E b \in obs.batches :
    /\ b.usdc = "unreadable" /\ ~b.err
    /\ b.added # {}
    /\ bot.activeOrders[b.cid] # <<>>

\* records were built and stored for a wallet without collateral
C14_SubmittedOnZeroBalance ==
  \E b \in obs.batches :
    /\ b.usdc = "zero" /\ ~b.err
    /\ b.sent # <<>>
    /\ b.cid \in bot.ordersPlaced

---------------------------------------------------------------------------
(* Missing credentials *)

PlacedIds(b) == {o.order_id : o \in {x \in KnownRecords(b) : x.status = "PLACED"}}

\* C15: a tick of a process that could not derive its API credentials adds no
\* PLACED record to active_orders or order_history and sets orders_placed for
\* no market
C15_ReadOnlyWithoutCreds ==
  [][(pc \in {"started", "idle"} /\ ~bot.creds /\ ticks' = ticks + 1) =>
        /\ bot'.ordersPlaced \subseteq bot.ordersPlaced
        /\ PlacedIds(bot') \subseteq PlacedIds(bot)]_vars

\* a process without credentials holds a PLACED record of an order that was
\* never accepted, in a group whose market is flagged as placed
C15_PlacedWithoutCreds ==
  /\ pc = "idle" /\ ~bot.creds
  /\ \E c \in bot.ordersPlaced : \E i \in 1 .. Len(bot.activeOrders[c]) :
       /\ bot.activeOrders[c][i].status = "PLACED"
       /\ bot.activeOrders[c][i].order_id.kind = "SALT"
       /\ bot.activeOrders[c][i] \in bot.orderHistory

---------------------------------------------------------------------------
(* A POST whose reply was lost *)

\* the exchange took on an order of the record's token and side during the
\* submission of the batch
ReachedBook(b, o) ==
  \E a \in b.added : a.asset_id = o.token_id /\ a.side = o.side

Unconfirmed(o) == o.error_message = Ptr("API error (will verify)")

\* C16: a record whose POST returned an error is first PLACED with the message
\* "API error (will verify)"; the verification leaves it PLACED with the message
\* cleared when the order did reach the book, and FAILED when it did not
C16_LostReplyResolved ==
  \A b \in obs.batches :
    (b.mode = "liquidity" /\ b.listed /\ ~b.err) =>
      \A i \in 1 .. Len(b.sent) :
        Unconfirmed(b.sent[i]) =>
          /\ b.sent[i].status = "PLACED"
          /\ IF ReachedBook(b, b.sent[i])
             THEN b.stored[i].status = "PLACED" /\ b.stored[i].error_message = Nil
             ELSE b.stored[i].status = "FAILED"

\* an order rests on the exchange while the record of its submission is FAILED
\* and no record of the Bot carries the exchange's id of the order
C16_OrderOnBookRecordFailed ==
  \E b \in obs.batches : \E i \in 1 .. Len(b.sent) : \E a \in b.added :
    /\ b.mode = "liquidity" /\ b.listed
    /\ Unconfirmed(b.sent[i])
    /\ a.asset_id = b.sent[i].token_id /\ a.side = b.sent[i].side
    /\ b.stored[i].status = "FAILED"
    /\ a.n \in b.open
    /\ \A o \in KnownRecords(bot) : o.order_id # OrdId(a.n)

---------------------------------------------------------------------------
(* Strategy exit *)

\* C17: the exit of the strategy runs at most once for a condition id, and
\* when it is over strategy_executed and positions_sold are set for that id and
\* no order of its group is PLACED or PARTIALLY_FILLED
C17_ExitCompletesOnce ==
  /\ \A c \in Markets :
       /\ obs.exits[c] <= 1
       /\ obs.exits[c] > 0 => \E d \in obs.done : d.cid = c
  /\ \A d \in obs.done : d.executed /\ d.sold /\ ~d.live

\* the exit started for a group and the process ended inside it: the file
\* still holds a live order of the group
C17_ExitCrashed ==
  \E c \in Markets :
    /\ obs.exits[c] > 0
    /\ pc = "boot" /\ restarts > 0
    /\ \E i \in 1 .. Len(disk.orders[c]) : disk.orders[c][i].status \in Live

\* the exit ran to its end: both flags set, no live order left in the group
C17_ExitDone ==
  \E c \in Markets :
    /\ obs.exits[c] = 1 /\ pc = "idle"
    /\ \E d \in obs.done : d.cid = c
    /\ c \in bot.strategyExecuted /\ c \in bot.positionsSold
    /\ bot.activeOrders[c] # <<>> /\ ~HasOpen(bot.activeOrders[c])

---------------------------------------------------------------------------
(* Errors inside a tick *)

\* C18: a tick in which an external call failed (a status refresh, a cancel,
\* a balance read, a placement) ends with error_count raised and last_error
\* set, and the process goes on to the end of the tick
C18_FailureCounted ==
  [][(ticks' = ticks + 1 /\ obs'.failed # {}) =>
        /\ pc' = "idle"
        /\ bot'.state.error_count > bot.state.error_count
        /\ IsSet(bot'.state.last_error)]_vars

\* a tick ended after a failed status refresh, cancel or balance read and the
\* Bot has counted no error
C18_SilentFailure ==
  /\ pc = "idle"
  /\ obs.failed \cap {"GetOrder", "Cancel", "ERC1155BalanceOf"} # {}
  /\ bot.state.error_count = 0
  /\ bot.state.last_error = Nil

\* a failed placement is counted
C18_PlacementCounted ==
  /\ pc = "idle"
  /\ obs.failed = {"placement"}
  /\ bot.state.error_count = 1

---------------------------------------------------------------------------
(* Groups *)

\* C20: every order of the group stored under a condition id carries that
\* condition id
C20_GroupHoldsOwnOrders ==
  \A c \in Markets : \A i \in 1 .. Len(bot.activeOrders[c]) :
    bot.activeOrders[c][i].condition_id = c

\* after a restart a group holds an order loaded from the file next to an order
\* recovered from the exchange, and a tick has gone over it
C20_Witness ==
  /\ restarts > 0 /\ pc = "idle"
  /\ \E c \in Markets : \E i, j \in 1 .. Len(bot.activeOrders[c]) :
       /\ IsSet(bot.activeOrders[c][i].strategy)
       /\ ~IsSet(bot.activeOrders[c][j].strategy)
       /\ bot.activeOrders[c][j].order_id.kind = "ORD"
       /\ \E k \in 1 .. Len(disk.orders[c]) :
            disk.orders[c][k].order_id = bot.activeOrders[c][i].order_id

---------------------------------------------------------------------------
(* The mutex *)

\* C19: whenever a goroutine is inside a read or a write of the BotState or of
\* the orders_placed map, and whenever the tick is inside a write of the Outcomes
\* that the BotState's markets point into, that goroutine holds the mutex
C19_AccessUnderMutex ==
  /\ Touches("tick") # {} => bot.mu = "tick"
  /\ (\E a \in Touches("dash") : a.obj # "outcomes") => bot.mu = "dash"

\* the tick is inside its write of orders_placed while OrdersPlaced, holding the
\* mutex, is inside its read of the same map
C19_MapRace ==
  /\ pc.tick = "flagging"
  /\ pc.dash = "read"
  /\ pc.call = "OrdersPlaced"
  /\ bot.mu = "dash"

\* the tick is inside fillMarketPrices' write of a market's Outcomes while the
\* dashboard reads that market in the snapshot GetState returned
C19_SnapshotRace ==
  /\ pc.tick = "pricing"
  /\ pc.dash = "encoding"
  /\ pc.k \in obs.snapshot.ActiveMarkets

\* the two goroutines are never inside the BotState at the same time
C19_StateExclusive ==
  ~ /\ \E a \in Touches("tick") : a.obj = "state"
    /\ \E a \in Touches("dash") : a.obj = "state"
---------------------------------------------------------------------------
(* Housekeeping *)

\* C21: after the housekeeping of a tick run at time now, every market still in
\* tracked_markets has end_ts >= now - 86400, and a market the housekeeping
\* dropped has no group, no orders_placed, positions_sold or strategy_executed
\* flag, no merged amount and no merge time left.
C21_HousekeepingDrops ==
  pc = "idle" =>
    /\ \A c \in bot.trackedMarkets : EndTS(c) >= now - CleanupAge
    /\ \A c \in obs.dropped :
          /\ c \notin bot.trackedMarkets
          /\ bot.activeOrders[c] = <<>>
          /\ c \notin bot.ordersPlaced
          /\ c \notin bot.positionsSold
          /\ c \notin bot.strategyExecuted
          /\ bot.mergedAmounts[c] = 0
          /\ bot.lastMergeAttempt[c] = 0

\* housekeeping dropped a market this process had placed orders for, while
\* another market stays tracked
C21_Witness ==
  /\ pc = "idle"
  /\ \E c \in obs.dropped : obs.placements[c] = 1
  /\ bot.trackedMarkets # {}
---------------------------------------------------------------------------
(* Shutdown *)

\* C22: once an interrupt has cancelled the context, the bot loop eventually
\* stops: it has returned, with the tick that was in progress finished, no
\* tick started after it, and is_running false.
C22_StopsAfterInterrupt ==
  (pc.ctx = "cancelled") ~> (pc.loop = "returned" /\ ~bot.state.is_running)

\* the process has ended in the middle of a tick, is_running still true
C22_KilledInTick ==
  /\ pc.main = "exited"
  /\ pc.loop = "killed"
  /\ pc.phase > 0
  /\ bot.state.is_running

\* in mode bot the loop has returned after an interrupt and the process ended
C22_BotModeStopped ==
  /\ pc.mode = "bot"
  /\ pc.ctx = "cancelled"
  /\ pc.main = "exited"
  /\ pc.loop = "returned"
  /\ ~bot.state.is_running
---------------------------------------------------------------------------
(* Near-expiry liquidation *)

\* C23: a reconciliation pass that finds a tracked, unsold market with
\* now >= end_ts - 60 hands a SELL to the exchange client for each outcome of
\* which the wallet holds more than 0.01 (the best bid being at least
\* MIN_SELL_PRICE), and leaves positions_sold[cid] true.
C23_NearExpirySells ==
  \A s \in obs.sells :
     /\ ~s.crashed
     /\ s.sold
     /\ s.bid >= MinSellPrice =>
           /\ s.yes > DustUnits => s.sizeYes > 0
           /\ s.no > DustUnits => s.sizeNo > 0

\* the liquidation sold nothing of an outcome the wallet still holds, because
\* the merged amount was taken off a balance read after the merge
C23_PositionLeftUnsold ==
  \E s \in obs.sells :
     /\ ~s.crashed /\ s.sold /\ s.read /\ s.bid >= MinSellPrice
     /\ s.merged > 0
     /\ \/ s.yes > DustUnits /\ s.sizeYes = 0
        \/ s.no > DustUnits /\ s.sizeNo = 0

\* the liquidation ended in a panic on a failed balance read
C23_LiquidationCrashed == \E s \in obs.sells : s.crashed /\ ~s.sold

\* the liquidation sold the whole balance of an outcome
C23_SoldAll ==
  \E s \in obs.sells :
     ~s.crashed /\ s.sold /\ s.yes > DustUnits /\ s.sizeYes = s.yes
---------------------------------------------------------------------------
(* Periodic merge *)

C24_NothingNew ==
  \E k \in 1 .. Len(obs.merges) :
     /\ obs.merges[k].called /\ obs.merges[k].balOk /\ obs.merges[k].mergeOk
     /\ obs.merges[k].already > 0
     /\ Min(obs.merges[k].yes, obs.merges[k].no) > 0
     /\ obs.merges[k].burned = 0

\* a pass that came too early attempted nothing
C24_TooEarly ==
  /\ Len(obs.attempts) = 1
  /\ \E k \in 1 .. Len(obs.merges) :
        ~obs.merges[k].called /\ Min(obs.merges[k].yes, obs.merges[k].no) > 0
---------------------------------------------------------------------------
(* Post-expiry cleanup *)

C25_Pending == pc = "idle" /\ bot.state.pending_orders # {}

\* the groups of tracked markets that ended more than 300 s before the check
ExpiredGroups ==
  {c \in Markets : /\ obs.work[1].before.activeOrders[c] # <<>>
                   /\ c \in obs.work[1].before.trackedMarkets
                   /\ obs.work[1].t > EndTS(c) + CancelAfterEnd}

\* the group of c gave the check a reason to report busy
GivesReason(c) ==
  LET b == obs.work[1].before
  IN  \/ HasOpen(b.activeOrders[c])
      \/ /\ c \notin b.positionsSold
         /\ HasFilled(b.activeOrders[c])
         /\ HoldsPosition(walletPositionsCleared(obs.work[1].wallet, c,
                                                b.activeOrders[c],
                                                [DefaultIn EXCEPT !.balOk =
                                                   obs.work[1].balOk]))

\* C26: has_active_work never reports busy because of a group whose tracked
\* market ended more than 300 seconds before now: after the check every such
\* group is marked positions_sold, and a busy answer has its reason in a group
\* that is not one of them, whatever the statuses of the orders.
C26_ExpiredNeverBlocks ==
  pc = "checked" =>
    /\ ExpiredGroups \subseteq bot.positionsSold
    /\ obs.work[1].busy => \E c \in Markets \ ExpiredGroups : GivesReason(c)
\* an expired group with a filled order and no live order anywhere is marked
\* sold by the check and does not block
C26_ExpiredMarkedSold ==
  /\ pc = "checked"
  /\ ~obs.work[1].busy
  /\ \E c \in ExpiredGroups : c \notin obs.work[1].before.positionsSold
                                /\ c \in bot.positionsSold
\* the only group is an expired one that holds a live order: the check is busy
C26_ExpiredBlocks ==
  /\ pc = "checked"
  /\ obs.work[1].busy
  /\ \A c \in Markets : obs.work[1].before.activeOrders[c] # <<>> => c \in ExpiredGroups

\* the status the precedence of C27 gives a refreshed order
ExpectedStatus(cur, remote, matched, original) ==
  IF remote = "MATCHED" \/ matched >= original THEN "FILLED"
  ELSE IF matched > 0 THEN "PARTIALLY_FILLED"
  ELSE IF remote = "CANCELLED" THEN "CANCELLED"
  ELSE IF remote \in {"OPEN", "PLACED", "LIVE", "ACTIVE"} THEN "PLACED"
  ELSE cur

\* C27: reconciliation maps each refreshed non-terminal order by the
\* precedence MATCHED or size_matched >= original_size -> FILLED (with
\* filled_at set), else size_matched > 0 -> PARTIALLY_FILLED, else remote
\* CANCELLED -> CANCELLED, else OPEN/PLACED/LIVE/ACTIVE -> PLACED, else the
\* local status stays; an order already terminal is not refreshed and a failed
\* refresh leaves the record unchanged.
C27_ReconcilePrecedence ==
  pc = "checked" =>
    \A n \in 1 .. Len(bot.activeOrders[1]) :
      LET old == obs.refresh[1].before[n]
          new == bot.activeOrders[1][n]
      IN  IF old.status \in Terminal \/ old.order_id \in obs.refresh[1].getFail
          THEN new = old
          ELSE /\ new.status = ExpectedStatus(old.status, book[n].status,
                                            book[n].size_matched, book[n].original_size)
               /\ new.status = "FILLED" => new.filled_at = Ptr(now)
\* one order was cancelled remotely after half of it had matched and ends
\* PARTIALLY_FILLED; the other, whose refresh failed, is left as it was
C27_Witness ==
  /\ pc = "checked"
  /\ \E n, m \in 1 .. Len(bot.activeOrders[1]) :
       /\ obs.refresh[1].before[n].status = "PLACED"
       /\ book[n].status = "CANCELLED" /\ book[n].size_matched = TestSize \div 2
       /\ bot.activeOrders[1][n].status = "PARTIALLY_FILLED"
       /\ obs.refresh[1].before[m].status = "PLACED"
       /\ obs.refresh[1].before[m].order_id \in obs.refresh[1].getFail
       /\ book[m].status = "MATCHED"
       /\ bot.activeOrders[1][m].status = "PLACED"
\* an answer with a status outside the vocabulary keeps the local status
C27_UnknownKept ==
  /\ pc = "checked"
  /\ \E n \in 1 .. Len(bot.activeOrders[1]) :
       /\ obs.refresh[1].before[n].status = "PLACED"
       /\ obs.refresh[1].before[n].order_id \notin obs.refresh[1].getFail
       /\ book[n].status = "DELAYED" /\ book[n].size_matched = 0
       /\ bot.activeOrders[1][n].status = "PLACED"

\* the markets of the discovered list inside both bounds of C28
InBounds ==
  {c \in obs.found : EndTS(c) >= now - UpcomingPastEnd
                     /\ StartTS(c) <= now + UpcomingHorizon}

\* C28: the discovery phase keeps exactly the discovered markets with
\* end_ts >= now - 300 and start_ts <= now + 86400 (both bounds inclusive, no
\* other exclusion), returns them sorted by start_ts ascending, and registers
\* each kept market that was not tracked in tracked_markets with
\* orders_placed[cid] = false.
C28_KeepsExactlyInBounds ==
  pc = "filtered" =>
    /\ {obs.out[i] : i \in 1 .. Len(obs.out)} = InBounds
    /\ Len(obs.out) = Cardinality(InBounds)
    /\ \A i, j \in 1 .. Len(obs.out) : i < j => StartTS(obs.out[i]) <= StartTS(obs.out[j])
    /\ \A c \in InBounds \ obs.before.trackedMarkets :
          c \in bot.trackedMarkets /\ c \notin bot.ordersPlaced
\* a market inside both bounds that the discovery reported closed is left out
\* and not registered
C28_ResolvedSkipped ==
  /\ pc = "filtered"
  /\ \E c \in InBounds \cap obs.resolved :
        /\ StartTS(c) > now
        /\ c \notin obs.before.trackedMarkets
        /\ c \notin bot.trackedMarkets
        /\ \A i \in 1 .. Len(obs.out) : obs.out[i] # c
\* a market that ended exactly 300 s ago is left out
C28_BoundarySkipped ==
  /\ pc = "filtered"
  /\ \E c \in obs.found \ obs.resolved :
        /\ EndTS(c) = now - UpcomingPastEnd
        /\ \A i \in 1 .. Len(obs.out) : obs.out[i] # c
\* markets inside the bounds are returned by ascending start and the new ones
\* are registered with their flag reset
C28_KeptSorted ==
  /\ pc = "filtered"
  /\ Len(obs.out) = 2
  /\ StartTS(obs.out[1]) < StartTS(obs.out[2])
  /\ \E c \in InBounds : c \notin obs.before.trackedMarkets /\ c \in bot.trackedMarkets
\* a market that starts exactly 86400 s from now is kept
C28_HorizonKept ==
  /\ pc = "filtered"
  /\ \E c \in Markets : StartTS(c) = now + UpcomingHorizon /\ obs.out = <<c>>

\* the window of C29 in seconds before the market's start
InWindow(c) ==
  /\ PlacementMinMinutes * 60 <= StartTS(c) - now
  /\ StartTS(c) - now <= PlacementMaxMinutes * 60

\* C29: the placement window test is true exactly when
\* PLACEMENT_MIN*60 <= start_ts - now <= PLACEMENT_MAX*60, both bounds
\* inclusive (true at 720 s, 600 s and 1200 s, false at 570 s and 1260 s): the
\* placement gate of an idle Bot starts a placement on a discovered market
\* exactly when the market is inside the window, and neither the gate nor the
\* fallback ever places on a market outside it.
C29_PlacementWindow ==
  /\ \A c \in Markets : shouldPlaceOrders(c, now) <=> InWindow(c)
  /\ pc \in {"gated", "placed"} =>
        /\ \A b \in obs.batches : InWindow(b.cid)
        /\ \A c \in Markets : obs.placements[c] > 0 => InWindow(c)
        /\ \A c \in obs.found : InWindow(c) => \E b \in obs.batches : b.cid = c
\* a market that starts exactly 600 s (and one that starts exactly 1200 s)
\* from now is placed by the gate
C29_Witness ==
  /\ pc = "gated"
  /\ \E c \in Markets :
        /\ StartTS(c) - now \in {PlacementMinMinutes * 60, PlacementMaxMinutes * 60}
        /\ obs.placements[c] = 1
        /\ c \in bot.ordersPlaced
\* the fallback places on a market inside the window that the gate failed on
C29_FallbackPlaced ==
  /\ pc = "placed"
  /\ \E c \in Markets : InWindow(c) /\ obs.placements[c] = 1
                          /\ Cardinality(obs.batches) = 2
\* 30 s before the window opens on it, a discovered market gets nothing
C29_TooLate ==
  /\ pc = "placed"
  /\ \E c \in obs.found : StartTS(c) - now = PlacementMinMinutes * 60 - 30
  /\ obs.batches = {}

\* C30: every price the core passes to order creation lies on the token's
\* tick grid inside [tick, 1 - tick], for every tick size of 0.1, 0.01, 0.001
\* and 0.0001 and every placement path (liquidity, split, simple-test with its
\* fixed price, liquidation SELL), so the price recorded on the OrderRecord
\* equals the price that is signed and sent.
C30_PricesOnGrid ==
  pc = "submitted" =>
    /\ obs.recorded % obs.tick = 0
    /\ obs.recorded >= obs.tick
    /\ obs.recorded <= PriceUnit - obs.tick
    /\ obs.sent.ok => obs.sent.price = obs.recorded
\* the simple-test order of a token with tick 0.1 is recorded at 0.49 and
\* signed at 0.5
C30_TestPriceOffGrid ==
  /\ pc = "submitted"
  /\ obs.path = "simple_test"
  /\ obs.tick = PriceUnit \div 10
  /\ obs.sent.ok
  /\ obs.recorded = 49 * (PriceUnit \div 100)
  /\ obs.sent.price = PriceUnit \div 2
\* on the paths that adjust the price with the token's tick, the price is on
\* the grid and is signed as recorded
C30_Snapped ==
  /\ pc = "submitted"
  /\ obs.path = "sell"
  /\ obs.reads = "ok"
  /\ obs.tick = PriceUnit \div 1000
  /\ obs.raw % obs.tick # 0
  /\ obs.sent.ok
  /\ obs.sent.price = obs.recorded
  /\ obs.recorded % obs.tick = 0
\* the core's read of the tick size failed and the price was adjusted to 0.01
\* for a token with tick 0.1
C30_DefaultTickUsed ==
  /\ pc = "submitted"
  /\ obs.path = "liquidity"
  /\ obs.reads = "fail_then_ok"
  /\ obs.sent.ok
  /\ obs.sent.price # obs.recorded
\* C31: the fallback placement runs after reconciliation and the strategy
\* exit of its tick, acts only when hasActiveMarketWork answers "not busy",
\* chooses the upcoming market inside the placement window that is not yet
\* placed and has the smallest start_ts, and sends the orders the placement
\* gate would send for the configured order mode (liquidity, split or test).
GateWouldSend(c) == placeForMode(World, c, now, orderMode, DefaultIn).sent

Eligible ==
  {c \in obs.found :
     /\ \E i \in 1 .. Len(UpcomingOf(obs.found, now)) : UpcomingOf(obs.found, now)[i] = c
     /\ StartTS(c) > now
     /\ c \notin bot.ordersPlaced
     /\ shouldPlaceOrders(c, now)}

C31_FallbackLikeGate ==
  [][(pc = "gated" /\ pc' = "placed") =>
       \A b \in obs'.batches \ obs.batches :
          /\ ~hasActiveMarketWork(World, now, DefaultIn).busy
          /\ b.cid \in Eligible
          /\ \A d \in Eligible : StartTS(b.cid) <= StartTS(d)
          /\ b.sent = GateWouldSend(b.cid)]_vars

\* C31: in the split mode the fallback sent the two fixed test orders
C31_SplitFallbackTestOrders ==
  /\ pc = "placed"
  /\ orderMode = "split"
  /\ \E b \in obs.batches :
        /\ b.mode = "test"
        /\ Len(b.sent) = 2
        /\ \A i \in 1 .. 2 : b.sent[i].price = TestPrice /\ b.sent[i].size = TestSize
\* C32: market parsing drops every upstream record in which one of
\* condition_id, slug, question, start_ts and end_ts is missing (absent or
\* null), so no Market with an empty or placeholder condition id, slug or
\* question is ever tracked.
MissingKey(r) ==
  IF r.first # <<>>
  THEN \/ r.first[1].conditionId = JNil
       \/ r.event.slug = JNil
       \/ r.first[1].question = JNil /\ r.event.title = JNil
  ELSE \/ r.event.conditionId = JNil /\ r.event.condition_id = JNil
       \/ r.event.slug = JNil /\ r.event.market_slug = JNil
       \/ r.event.question = JNil /\ r.event.title = JNil

Placeholders == {"", "<nil>"}

C32_DropsIncomplete ==
  /\ (pc # "fetched" /\ MissingKey(obs.response)) => ~obs.parsed.ok
  /\ (pc # "fetched" /\ obs.parsed.ok) =>
        obs.parsed.m.start_ts # 0 /\ obs.parsed.m.end_ts # 0
  /\ \A m \in bot.trackedMarkets :
        /\ m.condition_id \notin Placeholders
        /\ m.market_slug \notin Placeholders
        /\ m.question \notin Placeholders

\* C32: a market whose condition id is the text of a nil value is tracked
C32_PlaceholderTracked ==
  /\ pc = "tracked"
  /\ obs.response.first # <<>>
  /\ obs.response.first[1].conditionId = JNil
  /\ \E m \in bot.trackedMarkets : m.condition_id = "<nil>"
\* C33: no order that the exchange accepted and matched, wholly or partly,
\* is recorded as FAILED; an order that is filled before the verification
\* lists the open orders does not end FAILED with size 0.
MatchedOnBook(o) ==
  /\ o.order_id.kind = "ORD"
  /\ o.order_id.n \in 1 .. Len(book)
  /\ book[o.order_id.n].size_matched > 0

C33_MatchedNeverFailed ==
  \A c \in Markets : \A i \in 1 .. Len(bot.activeOrders[c]) :
     MatchedOnBook(bot.activeOrders[c][i]) => bot.activeOrders[c][i].status # "FAILED"

\* C33: a BUY of the split that was filled at once is FAILED with size 0
\* after a later reconciliation
C33_FilledRecordedFailed ==
  /\ pc.at = "registered"
  /\ orderMode = "split"
  /\ ticks > 0
  /\ \E c \in Markets : \E i \in 1 .. Len(bot.activeOrders[c]) :
        /\ MatchedOnBook(bot.activeOrders[c][i])
        /\ book[bot.activeOrders[c][i].order_id.n].status = "MATCHED"
        /\ bot.activeOrders[c][i].status = "FAILED"
        /\ bot.activeOrders[c][i].size = 0
\* C34: the strategy exit, the cleanup after a market's end and housekeeping
\* mark an order CANCELLED only if the exchange no longer holds it open; when
\* the cancel call fails the local status stays live (and the cancel is
\* retried in a later tick).
HeldOpen(o) ==
  /\ o.order_id.kind = "ORD"
  /\ o.order_id.n \in 1 .. Len(book)
  /\ book[o.order_id.n].status = "LIVE"

C34_CancelledOnlyIfClosed ==
  /\ \A c \in Markets : \A i \in 1 .. Len(bot.activeOrders[c]) :
        bot.activeOrders[c][i].status = "CANCELLED" => ~HeldOpen(bot.activeOrders[c][i])
  /\ \A h \in bot.orderHistory : h.status = "CANCELLED" => ~HeldOpen(h)

\* C34: the cancel call of the cleanup after a market's end failed, the order
\* rests on the book, and its record is CANCELLED when the tick is over
C34_FailedCancelMarked ==
  /\ pc = "idle"
  /\ \E s \in obs.cancelled :
        /\ ~s.asked
        /\ \E h \in bot.orderHistory :
              h.order_id \in s.ids /\ h.status = "CANCELLED" /\ HeldOpen(h)
\* C35: every order record that is PLACED or PARTIALLY_FILLED in the order
\* history eventually is FILLED, CANCELLED or FAILED there as ticks keep
\* running and time advances, the records of liquidation SELL orders
\* included (so that the busy check does not stay busy for ever).
LiveOrderIds == {OrdId(n) : n \in 1 .. 4 * NumMarkets}

OpenInHistory(id) ==
  \E h \in bot.orderHistory : h.order_id = id /\ h.status \in Live

SettledInHistory(id) ==
  \E h \in bot.orderHistory : h.order_id = id /\ h.status \in Terminal

C35_OrdersSettle ==
  \A id \in LiveOrderIds : OpenInHistory(id) ~> SettledInHistory(id)

\* C35: housekeeping has dropped every market and the record of a
\* liquidation SELL is PLACED in the history
C35_SellStaysPlaced ==
  /\ now > EndTS(NumMarkets) + CleanupAge
  /\ bot.trackedMarkets = {}
  /\ \E h \in bot.orderHistory :
        h.side = "SELL" /\ h.status = "PLACED" /\ h.order_id \in LiveOrderIds
\* C36: the leftover positions of a market are sold by at most one
\* liquidation event: once the strategy exit or the near-expiry liquidation
\* has sent SELL orders for a market, neither sends SELL orders for it again,
\* in the same tick or in a later one.  (In the test order mode every SELL on
\* the book is a liquidation SELL, and one event sends one SELL per token.)
SellsOnBook(tok) ==
  {n \in 1 .. Len(book) : book[n].side = "SELL" /\ book[n].asset_id = tok}

C36_OneLiquidation ==
  orderMode = "test" =>
    \A c \in Markets : \A tok \in {UpToken(c), DownToken(c)} :
       Cardinality(SellsOnBook(tok)) <= 1

\* C36: in one tick of a process that never restarted the near-expiry
\* liquidation sold a position and the strategy exit sold it again
C36_SoldTwiceInOneTick ==
  /\ pc = "idle"
  /\ orderMode = "test"
  /\ restarts = 0
  /\ \E s \in obs.sells :
        /\ s.t = now
        /\ s.sizeYes > 0
        /\ obs.exits[s.cid] = 1
        /\ Cardinality(SellsOnBook(UpToken(s.cid))) = 2
        /\ \A n \in SellsOnBook(UpToken(s.cid)) : book[n].size_matched = 0
\* C37: each redeemable condition contributes at most one REDEEM record (and
\* so its value at most once to total_pnl) over any sequence of redemption
\* sweeps, also when a sweep runs while an earlier redeem transaction is
\* unmined and the listing still reports the condition; and a sweep runs at
\* most once per RedeemCheckInterval.
RedeemsOf(c) ==
  {h \in bot.orderHistory : h.transaction_type = "REDEEM" /\ h.condition_id = c}

C37_RedeemedOnce ==
  /\ \A c \in Markets : Cardinality(RedeemsOf(c)) <= 1
  /\ \A c \in Markets : SumPNL(RedeemsOf(c)) <= PositionValue(c)
  /\ \A i \in 1 .. Len(obs) - 1 : obs[i + 1] - obs[i] >= RedeemCheckInterval

\* C37: two sweeps one interval apart each recorded the redemption of a
\* condition whose first transaction was not mined in between
C37_RedeemedTwice ==
  /\ Len(obs) = 2
  /\ obs[2] - obs[1] = RedeemCheckInterval
  /\ book[1] = "pending"
  /\ Cardinality(RedeemsOf(1)) = 2
  /\ SumPNL(bot.orderHistory) = 2 * PositionValue(1)
\* C38: while a market is tracked and not sold, the chain calls succeed and
\* the wallet holds more than 0.001 of both outcome tokens, MergePositions is
\* eventually called, also when an earlier merge of the market succeeded and
\* later fills made a new pair.  (Every chain call succeeds here, so a call
\* of MergePositions burns tokens.)
HoldsPair(c) ==
  /\ c \in bot.trackedMarkets
  /\ c \notin bot.positionsSold
  /\ ERC1155BalanceOf(World, UpToken(c)) > MergeMinUnits
  /\ ERC1155BalanceOf(World, DownToken(c)) > MergeMinUnits

BurnLevels == {0, TestSize \div 2, TestSize}

C38_MergeProgress ==
  \A c \in Markets : \A k \in BurnLevels :
     (HoldsPair(c) /\ burned[c] = k) ~> (burned[c] > k)

\* C38: a merge pass has just run for a market whose earlier merge succeeded
\* and whose wallet holds a new pair, and it burned nothing
C38_PairLeftAfterPass ==
  \E c \in Markets :
     /\ HoldsPair(c)
     /\ bot.mergedAmounts[c] > 0
     /\ burned[c] = bot.mergedAmounts[c]
     /\ bot.lastMergeAttempt[c] = now
     /\ now < EndTS(c) - SellBeforeEnd
\* C39: placement never assigns active_orders[cid] over a group that holds a
\* PLACED or PARTIALLY_FILLED order, also after a restart that left
\* orders_placed[cid] unset
C39_NoLiveOrderReplaced == \A r \in obs.replaced : ~r.live

\* after a restart the orders of a market were placed again over the group
\* that was loaded for it
C39_GroupReplaced ==
  \E r \in obs.replaced : restarts > 0 /\ obs.placements[r.cid] = 1 /\ ~r.live
\* C40: every liquidation SELL that is sent is priced at no less than
\* MIN_SELL_PRICE and inside [tick, 1 - tick] after snapping, and no SELL is
\* sent when the best bid is 0 or below MIN_SELL_PRICE, for every tick size,
\* MIN_SELL_PRICE and MARKET_SELL_DISCOUNT
C40_SellPriceFloor ==
  /\ obs.sent.ok => /\ obs.price >= obs.minSell
                    /\ obs.sent.price >= obs.minSell
                    /\ priceValid(obs.sent.price, obs.tick)
  /\ (obs.bid = 0 \/ obs.bid < obs.minSell) => ~obs.sent.ok

\* a SELL was sent under the configured minimum although the tick size was
\* read and the bid was at or above the minimum
C40_SoldBelowMinimum ==
  /\ pc = "submitted"
  /\ obs.reads = "ok"
  /\ obs.sent.ok
  /\ obs.bid >= obs.minSell
  /\ obs.sent.price < obs.minSell

====
